---- MODULE Spec2Model ----
(***************************************************************************)
(* A model of the zlog logging library: the Logger (its level gate, entry  *)
(* pool, lock and output), the Entry life cycle (With* views, log, the     *)
(* text formatter's handling of the field map) and the creation of         *)
(* Loggers (New, Sub, the package registry), and the tracer.               *)
(*                                                                         *)
(* Spec      one Logger made by New() and one caller: SetLevel and the     *)
(*           severity methods at every level, step by step (gate,          *)
(*           newEntry, format+lock, write+unlock, exit/unwind/release).    *)
(* SpecLive  Spec with the fairness of a call running on to its end.       *)
(* SpecEntry one caller: With* views, branching with WithField and         *)
(*           severity calls on the Logger and on the views.                *)
(* SpecConc  two callers on the one Logger: With* and severity calls in    *)
(*           every interleaving.                                           *)
(* SpecReg   one caller that creates Loggers with New and Sub, configures  *)
(*           them and logs through them.                                   *)
(* SpecPkg   one caller: New, Sub, the lazily made standard Logger and    *)
(*           the package-level SetOutput over the registry.                *)
(* SpecTrace one caller: Trace and TraceEnd over the trace channels.       *)
(* SpecLines one caller: WithMultiLines / WithLongString, as methods of a  *)
(*           Logger and as package-level functions.                        *)
(* SpecStruct one caller: Logger.WithStruct and Info on its Entries.       *)
(* SpecRace  two callers on the standard Logger: log calls, SetOutput and  *)
(*           SetLevel step by step, and the flush of a trace channel.      *)
(* SpecTrip  one caller: the text formatter's rendering of field values   *)
(*           of every length.                                              *)
(* SpecPanics one caller: AddFields, the package-level WithMultiLines and  *)
(*           severity calls on what they return, TraceEnd.                 *)
(* SpecPrint one caller: SetLevel and the Logger's print methods.          *)
(* SpecTraceRace two callers: Trace on one channel step by step, then      *)
(*           TraceEnd.                                                     *)
(* SpecSub   one caller: New and chains of Sub calls, the module path      *)
(*           being a slice with its capacity and backing array.            *)
(* SpecStd   two callers: the package-level SetLevel and GetLevel from     *)
(*           the first use on, StandardLogger step by step.                *)
(* SpecHelpers one caller: the helpers around Trace.                       *)
(***************************************************************************)
EXTENDS Integers, Sequences, FiniteSets, TLC

VARIABLES logger, loggers, std, entries, th, retained, out, status, last,
          chains, colors, orphans

(* The trace registry: the chains by channel index and the colour map. *)
trace == <<chains, colors, orphans>>

vars == <<logger, loggers, std, entries, th, retained, out, status, last, trace>>

-----------------------------------------------------------------------------
(* Bounds of the model. *)

MaxEntries == 3     \* Entry objects ever allocated
MaxOut == 2         \* records ever written
MaxLoggers == 2     \* Logger objects ever allocated (SpecReg)
MaxRegOut == 1      \* records ever written (SpecReg)
MaxConfigs == 1     \* configuration settings ever changed (SpecReg)
MaxBlocks == 3      \* trace blocks ever appended
MaxTraceOut == 3    \* trace records ever written
MaxRaceBlocks == 1  \* trace blocks appended while callers race (SpecRace)
MaxText == 3        \* characters of a text given to WithMultiLines / WithLongString
MaxValueLen == 130  \* characters of a stringified field value
MaxArgs == 2        \* arguments given to AddFields
MaxSubLoggers == 4  \* Logger objects ever allocated (SpecSub)

Threads == {"t1", "t2"}
Writers == {"stderr", "w"}
UserKeys == {"a", "msg"}
Payloads == {"js"}
Segments == {"x"}
SubSegments == {"x", "y"}
SubRoots == {<<>>, <<"a", "b">>}
Channels == {0, 1}
PkgWriters == {"w"}
TextChars == {"x", "\n"}
Seps == {"\n", ","}
LineKeys == {"k"}
StructValues == {"ok", "bad"}
TraceObjs == {"ok", "bad"}
TraceMsgs == {<<"A">>}

-----------------------------------------------------------------------------
(* Levels: the ordered enum Panic < Fatal < Error < Warn < Info < Debug. *)

PanicLevel == 0
FatalLevel == 1
ErrorLevel == 2
WarnLevel == 3
InfoLevel == 4
DebugLevel == 5

Levels == PanicLevel .. DebugLevel

moduleKey == "module"
ErrorKey == "error"
ReservedKeys == {"msg"}
NoJson == "nil"
NoThread == "none"
NoFields == [k \in {} |-> "v1"]

(* A Fields map is a function from a finite set of keys to values. *)
Put(f, k, v) == [x \in (DOMAIN f) \cup {k} |-> IF x = k THEN v ELSE f[x]]
Merge(f, g) == [x \in (DOMAIN f) \cup (DOMAIN g) |-> IF x \in DOMAIN g THEN g[x] ELSE f[x]]

RECURSIVE Join(_)
Join(names) ==
    IF Len(names) = 0 THEN ""
    ELSE IF Len(names) = 1 THEN names[1]
    ELSE names[1] \o "/" \o Join(Tail(names))

-----------------------------------------------------------------------------
(* Logger: construction and configuration. *)

(* The value New gives Logger.Level. *)
NewLevel == DebugLevel

(* The value Sub gives the derived Logger's Level. *)
SubLevel == InfoLevel

MutexWrap == [locked |-> NoThread, disabled |-> FALSE]

(* moduleNames is a slice: the path it shows, its capacity cap, and in arr   *)
(* the Logger whose slice first had the backing array (0: this Logger).     *)
LoggerRec(o, lv, names) ==
    [Out |-> o, Level |-> lv, mu |-> MutexWrap, entryPool |-> {}, moduleNames |-> names,
     cap |-> Len(names), arr |-> 0]

(* New(moduleNames...): no names means "main". *)
NewNames(names) == IF Len(names) <= 0 THEN <<"main">> ELSE names

NewLogger(names) == LoggerRec("stderr", NewLevel, NewNames(names))

(* Logger.Name: the path joined with "/". *)
Name(l) == Join(logger[l].moduleNames)

(* Sub(moduleNames...): with no names the receiver itself is returned. *)
SubReturnsReceiverAlways(names) == TRUE
SubReturnsReceiver(names) == Len(names) <= 0

(* append(logger.moduleNames, moduleNames...): within the capacity the new   *)
(* elements are written into the receiver's backing array, beyond it the    *)
(* slice moves to a fresh array of at least twice the capacity.             *)
ArrOf(lgs, l) == IF lgs[l].arr = 0 THEN l ELSE lgs[l].arr

AppendInPlace(p, names) == Len(logger[p].moduleNames) + Len(names) <= logger[p].cap

GrowCap(oldCap, newLen) == IF newLen > 2 * oldCap THEN newLen ELSE 2 * oldCap

(* The Loggers once append has written names behind the receiver's path:    *)
(* every slice over the same backing array that reaches that far shows them.*)
LoggersAfterAppend(lgs, p, names) ==
    LET n0 == Len(lgs[p].moduleNames)
    IN  [l \in DOMAIN lgs |->
            IF AppendInPlace(p, names) /\ ArrOf(lgs, l) = ArrOf(lgs, p)
            THEN [lgs[l] EXCEPT !.moduleNames =
                     [j \in DOMAIN @ |->
                         IF j > n0 /\ j <= n0 + Len(names) THEN names[j - n0] ELSE @[j]]]
            ELSE lgs[l]]

SubLogger(p, names) ==
    [LoggerRec("stderr", SubLevel, logger[p].moduleNames \o names) EXCEPT
        !.cap = IF AppendInPlace(p, names) THEN logger[p].cap
                ELSE GrowCap(logger[p].cap, Len(logger[p].moduleNames) + Len(names)),
        !.arr = IF AppendInPlace(p, names) THEN ArrOf(logger, p) ELSE 0]

-----------------------------------------------------------------------------
(* Entry: the pooled objects and the views With* returns. *)

EntryRec(l, data, js, att, pooled, from, added) ==
    [Logger |-> l, Data |-> data, JsonRaw |-> js, Buffer |-> "nil",
     attached |-> att, pooled |-> pooled, from |-> from, added |-> added]

(* NewEntry(logger, moduleName): a fresh Entry carrying only the module key. *)
NewEntry(l) ==
    EntryRec(l, Put(NoFields, moduleKey, Name(l)), NoJson, NoFields, TRUE, 0, NoFields)

(* Entry.WithFields: a new Entry whose map is a copy of the receiver's with *)
(* the given fields merged in (later keys overwrite).                        *)
EntryWithFields(e, F) ==
    EntryRec(entries[e].Logger, Merge(entries[e].Data, F), entries[e].JsonRaw,
             Merge(entries[e].attached, F), FALSE, e, F)

(* Entry.WithJsonRaw: a new Entry with the receiver's fields and the payload. *)
EntryWithJsonRaw(e, js) ==
    EntryRec(entries[e].Logger, entries[e].Data, js, entries[e].attached, FALSE,
             e, NoFields)

(* The receiver's own map once a branch has been made from it: untouched, *)
(* the branch works on a copy.                                            *)
DataAfterBranchShared(own, branch) == branch
DataAfterBranch(own, branch) == own

(* The Entry table after Entry e has branched into the new Entry child. *)
Branch(e, child) ==
    Append([entries EXCEPT ![e].Data = DataAfterBranch(@, child.Data)], child)

(* The view a With* call of the Logger builds from the pooled Entry. *)
WithView(e, arg) ==
    IF arg.J # NoJson THEN EntryWithJsonRaw(e, arg.J) ELSE EntryWithFields(e, arg.F)

(* sync.Pool.Get as used by newEntry: the Entry taken leaves the pool. *)
PoolAfterGetKeeps(pool, e) == pool
PoolAfterGet(pool, e) == pool \ {e}

(* The Entry a With* method of the Logger hands to the deferred releaseEntry: *)
(* the one it got from newEntry, not the view it returns.                      *)
ReleasedByWithView(pooledEntry, view) == view
ReleasedByWith(pooledEntry, view) == pooledEntry

-----------------------------------------------------------------------------
(* TextFormatter.Format (plain layout). *)

(* prefixFieldClashes: a user field under a reserved key also appears under *)
(* the key prefixed with "fields.".                                          *)
prefixFieldClashes(data) ==
    [k \in (DOMAIN data) \cup {"fields." \o r : r \in ReservedKeys \cap (DOMAIN data)} |->
        IF k \in DOMAIN data THEN data[k]
        ELSE data[CHOOSE r \in ReservedKeys \cap (DOMAIN data) : k = "fields." \o r]]

(* The keys are collected before prefixFieldClashes runs on the Entry's map. *)
FormatKeys(data) == DOMAIN data

(* The field lines: one per collected key but the module key, the value read *)
(* from the map after prefixFieldClashes.                                     *)
FormatFields(data) ==
    LET post == prefixFieldClashes(data)
    IN  [k \in FormatKeys(data) \ {moduleKey} |->
            IF k \in DOMAIN post THEN post[k] ELSE "<nil>"]

(* The record Format renders for Entry e logged at level lvl by thread t. *)
Format(t, e, lvl) ==
    [by |-> t, ent |-> e, lg |-> entries[e].Logger, level |-> lvl,
     module |-> prefixFieldClashes(entries[e].Data)[moduleKey],
     fields |-> FormatFields(entries[e].Data), json |-> entries[e].JsonRaw]

(* Format leaves the Entry's own map changed by prefixFieldClashes. *)
EntryAfterFormat(e) == [entries[e] EXCEPT !.Data = prefixFieldClashes(@)]

(* Entry.log renders the record in a buffer it hangs on the Entry. *)
EntryBuffered(ent) == [ent EXCEPT !.Buffer = "buf"]

(* Entry.log drops the buffer once the record is written. *)
EntryAfterWrite(e) == [entries[e] EXCEPT !.Buffer = "nil"]

-----------------------------------------------------------------------------
(* The severity methods. *)

(* The gate of every severity method: logger.Level >= <its level>. *)
EnabledStrict(T, S) == T > S
Enabled(T, S) == T >= S

(* The level a severity method hands to entry.log: its own. *)
LogLevelArgThreshold(S, T) == T
LogLevelArg(S, T) == S

(* What a gated-out severity method does to the process: nothing. *)
AfterGatedOutExits(S, st) == IF S = FatalLevel THEN "exited" ELSE st
AfterGatedOut(S, st) == st

(* How Entry.log ends, by the record's level. *)
logOutcome(lvl) ==
    IF lvl = FatalLevel THEN "exit" ELSE IF lvl = PanicLevel THEN "panic" ELSE "return"

-----------------------------------------------------------------------------
(* State. *)

NoRec == [by |-> NoThread]
NoArg == [F |-> NoFields, J |-> NoJson]

(* A caller between calls. *)
IdleTh ==
    [pc |-> "idle", op |-> "none", lg |-> 0, S |-> 0, T |-> 0, lvl |-> 0, ent |-> 0,
     fromPool |-> FALSE, n0 |-> 0, rec |-> NoRec, arg |-> NoArg, res |-> "none",
     idx |-> 0, pos |-> 0, key |-> "", segs |-> <<>>, view |-> 0,
     val |-> "nil", recv |-> 0, src |-> <<>>, rendered |-> <<>>,
     ok |-> FALSE, chain |-> NoThread, targs |-> <<>>]

LoggerIds == 1 .. Len(logger)
EntryIds == 1 .. Len(entries)

TotalOut == Len(out["stderr"]) + Len(out["w"])

(* The records thread t has written so far. *)
WrittenBy(t) ==
    Cardinality({i \in DOMAIN out["stderr"] : out["stderr"][i].by = t})
    + Cardinality({i \in DOMAIN out["w"] : out["w"][i].by = t})

(* Calls that are past their gate and have not written yet. *)
PendingWrites == Cardinality({t \in Threads : th[t].pc \in {"new", "log", "write"}})

(* With* calls that have not built their view yet. *)
PendingViews == Cardinality({t \in Threads : th[t].pc = "wret"})

Running == status = "running"

(* The last construction call (New, Sub) and what it returned. *)
NoCall == [op |-> "none", recv |-> 0, names |-> <<>>, result |-> 0]

(* The colours of the trace palette and the sentinel. *)
nocolor == 0
red == 31
green == 32
yellow == 33
blue == 34

Palette == {red, green, yellow, blue}

(* init() of the tracer: no chain, every palette colour unused. *)
NoChains == [i \in {} |-> 0]
InitColors == [c \in Palette |-> FALSE]

(* The Logger made by New(), nothing logged yet. *)
Init ==
    /\ logger = <<NewLogger(<<>>)>>
    /\ loggers = <<1>>
    /\ std = 0
    /\ entries = <<>>
    /\ th = [t \in Threads |-> IdleTh]
    /\ retained = [t \in Threads |-> {}]
    /\ out = [w \in Writers |-> <<>>]
    /\ status = "running"
    /\ last = NoCall
    /\ chains = NoChains
    /\ colors = InitColors
    /\ orphans = NoChains

(* No Logger made yet. *)
InitReg ==
    /\ logger = <<>>
    /\ loggers = <<>>
    /\ std = 0
    /\ entries = <<>>
    /\ th = [t \in Threads |-> IdleTh]
    /\ retained = [t \in Threads |-> {}]
    /\ out = [w \in Writers |-> <<>>]
    /\ status = "running"
    /\ last = NoCall
    /\ chains = NoChains
    /\ colors = InitColors
    /\ orphans = NoChains

-----------------------------------------------------------------------------
(* Logger.SetLevel: logger.Level = level. *)
SetLevel(l, v) ==
    /\ Running
    /\ l \in LoggerIds
    /\ logger' = [logger EXCEPT ![l].Level = v]
    /\ UNCHANGED <<trace, loggers, std, entries, th, retained, out, status>>
    /\ last' = last

(* Logger.SetOutput: Lock; logger.Out = out; Unlock. *)
SetOutput(l, w) ==
    /\ Running
    /\ l \in LoggerIds
    /\ logger[l].mu.disabled \/ logger[l].mu.locked = NoThread
    /\ logger' = [logger EXCEPT ![l].Out = w]
    /\ UNCHANGED <<trace, loggers, std, entries, th, retained, out, status>>
    /\ last' = last

(* Logger.SetNoLock: mu.Disable(). *)
SetNoLock(l) ==
    /\ Running
    /\ l \in LoggerIds
    /\ logger' = [logger EXCEPT ![l].mu.disabled = TRUE]
    /\ UNCHANGED <<trace, loggers, std, entries, th, retained, out, status>>
    /\ last' = last

-----------------------------------------------------------------------------
(* A severity method of the Logger (Debug .. Panic, with the f and ln      *)
(* variants, which differ only in how the message is built): the gate.     *)
SevGate(t, l, S) ==
    /\ Running
    /\ th[t].pc = "idle"
    /\ l \in LoggerIds
    /\ LET T == logger[l].Level
       IN  IF Enabled(T, S)
           THEN /\ TotalOut + PendingWrites < MaxOut
                /\ th' = [th EXCEPT ![t] = [IdleTh EXCEPT !.pc = "new", !.op = "sev",
                              !.lg = l, !.S = S, !.T = T, !.lvl = LogLevelArg(S, T),
                              !.n0 = WrittenBy(t)]]
                /\ status' = status
           ELSE /\ th' = [th EXCEPT ![t] = [IdleTh EXCEPT !.pc = "ret", !.op = "sev",
                              !.lg = l, !.S = S, !.T = T, !.n0 = WrittenBy(t),
                              !.res = "gated"]]
                /\ status' = AfterGatedOut(S, status)
    /\ UNCHANGED <<trace, logger, loggers, std, entries, retained, out, last>>

(* logger.newEntry(): an Entry of the pool, or a fresh one when Get gives none. *)
SevNewEntry(t) ==
    /\ Running
    /\ th[t].pc = "new"
    /\ LET l == th[t].lg
       IN  \/ \E e \in logger[l].entryPool :
                /\ logger' = [logger EXCEPT ![l].entryPool = PoolAfterGet(@, e)]
                /\ entries' = entries
                /\ th' = [th EXCEPT ![t].pc = "log", ![t].ent = e, ![t].fromPool = TRUE]
           \/ /\ Len(entries) + PendingViews < MaxEntries
              /\ entries' = Append(entries, NewEntry(l))
              /\ logger' = logger
              /\ th' = [th EXCEPT ![t].pc = "log", ![t].ent = Len(entries) + 1]
    /\ UNCHANGED <<trace, loggers, std, retained, out, status, last>>

(* entry.log, first half: Format renders the record (and runs              *)
(* prefixFieldClashes on the Entry's map), then the Logger's lock is taken. *)
LogFormatLock(t) ==
    /\ Running
    /\ th[t].pc = "log"
    /\ LET e == th[t].ent
           l == entries[e].Logger
       IN  /\ logger[l].mu.disabled \/ logger[l].mu.locked = NoThread
           /\ th' = [th EXCEPT ![t].pc = "write", ![t].rec = Format(t, e, th[t].lvl)]
           /\ entries' = [entries EXCEPT ![e] = EntryBuffered(EntryAfterFormat(e))]
           /\ logger' = IF logger[l].mu.disabled THEN logger
                        ELSE [logger EXCEPT ![l].mu.locked = t]
    /\ UNCHANGED <<trace, loggers, std, retained, out, status, last>>

(* entry.log, second half: Out.Write(serialized); Unlock. *)
LogWriteUnlock(t) ==
    /\ Running
    /\ th[t].pc = "write"
    /\ LET e == th[t].ent
           l == entries[e].Logger
       IN  /\ out' = [out EXCEPT ![logger[l].Out] = Append(@, th[t].rec)]
           /\ logger' = IF logger[l].mu.disabled THEN logger
                        ELSE [logger EXCEPT ![l].mu.locked = NoThread]
           /\ entries' = [entries EXCEPT ![e] = EntryAfterWrite(e)]
           /\ th' = [th EXCEPT ![t].pc = "after", ![t].rec = NoRec]
    /\ UNCHANGED <<trace, loggers, std, retained, status, last>>

(* The end of entry.log and of the method: Fatal ends the process, Panic   *)
(* unwinds past releaseEntry, any other level releases the Entry (a        *)
(* method of the Logger) and returns.                                      *)
SevAfter(t) ==
    /\ Running
    /\ th[t].pc = "after"
    /\ LET o == logOutcome(th[t].lvl)
           l == th[t].lg
       IN  /\ status' = IF o = "exit" THEN "exited" ELSE status
           /\ th' = [th EXCEPT ![t].pc = CASE o = "exit" -> "exit"
                                           [] o = "panic" -> "panicking"
                                           [] OTHER -> "ret",
                               ![t].res = o]
           /\ logger' = IF o = "return" /\ th[t].op \in {"sev", "print"}
                        THEN [logger EXCEPT ![l].entryPool = @ \cup {th[t].ent}]
                        ELSE logger
    /\ UNCHANGED <<trace, loggers, std, entries, retained, out, last>>

(* The call returns to its caller. *)
Return(t) ==
    /\ Running
    /\ th[t].pc = "ret"
    /\ th' = [th EXCEPT ![t] = IdleTh]
    /\ UNCHANGED <<trace, logger, loggers, std, entries, retained, out, status, last>>

(* The caller recovers from the unwind (a deferred recover()). *)
Recover(t) ==
    /\ Running
    /\ th[t].pc = "panicking"
    /\ th' = [th EXCEPT ![t] = IdleTh]
    /\ UNCHANGED <<trace, logger, loggers, std, entries, retained, out, status, last>>

(* Nothing recovers: the unwind ends the process. *)
Crash(t) ==
    /\ Running
    /\ th[t].pc = "panicking"
    /\ status' = "crashed"
    /\ UNCHANGED <<trace, logger, loggers, std, entries, th, retained, out, last>>

-----------------------------------------------------------------------------
(* The With* methods of the Logger: entry := newEntry(); defer             *)
(* releaseEntry(entry); return entry.With...(...).                         *)

FieldInputs == {Put(NoFields, k, "v1") : k \in UserKeys}

WithArgs ==
    {[F |-> f, J |-> NoJson] : f \in FieldInputs}
    \cup {[F |-> NoFields, J |-> js] : js \in Payloads}

(* newEntry of a With* call. *)
WithNewEntry(t, l, arg) ==
    /\ Running
    /\ th[t].pc = "idle"
    /\ l \in LoggerIds
    /\ \/ \E e \in logger[l].entryPool :
            /\ Len(entries) + PendingViews + 1 <= MaxEntries
            /\ logger' = [logger EXCEPT ![l].entryPool = PoolAfterGet(@, e)]
            /\ entries' = entries
            /\ th' = [th EXCEPT ![t] = [IdleTh EXCEPT !.pc = "wret", !.op = "with",
                          !.lg = l, !.ent = e, !.fromPool = TRUE, !.arg = arg]]
       \/ /\ Len(entries) + PendingViews + 2 <= MaxEntries
          /\ entries' = Append(entries, NewEntry(l))
          /\ logger' = logger
          /\ th' = [th EXCEPT ![t] = [IdleTh EXCEPT !.pc = "wret", !.op = "with",
                        !.lg = l, !.ent = Len(entries) + 1, !.arg = arg]]
    /\ UNCHANGED <<trace, loggers, std, retained, out, status, last>>

(* The view is built, the deferred releaseEntry runs, the view is returned. *)
WithReturn(t) ==
    /\ Running
    /\ th[t].pc = "wret"
    /\ LET l == th[t].lg
           view == Len(entries) + 1
       IN  /\ entries' = Branch(th[t].ent, WithView(th[t].ent, th[t].arg))
           /\ logger' = [logger EXCEPT ![l].entryPool =
                             @ \cup {ReleasedByWith(th[t].ent, view)}]
           /\ retained' = [retained EXCEPT ![t] = @ \cup {view}]
           /\ th' = [th EXCEPT ![t] = IdleTh]
    /\ UNCHANGED <<trace, loggers, std, out, status, last>>

(* Entry.WithField on an Entry the caller holds: a new Entry. *)
EntryWithField(t, e, k, v) ==
    /\ Running
    /\ th[t].pc = "idle"
    /\ e \in retained[t]
    /\ Len(entries) + PendingViews + 1 <= MaxEntries
    /\ entries' = Branch(e, EntryWithFields(e, Put(NoFields, k, v)))
    /\ retained' = [retained EXCEPT ![t] = @ \cup {Len(entries) + 1}]
    /\ UNCHANGED <<trace, logger, loggers, std, th, out, status, last>>

(* A severity method of an Entry the caller holds: the gate on its         *)
(* Logger's level, then entry.log.                                         *)
EntrySevGate(t, e, S) ==
    /\ Running
    /\ th[t].pc = "idle"
    /\ e \in retained[t]
    /\ LET l == entries[e].Logger
           T == logger[l].Level
       IN  IF Enabled(T, S)
           THEN /\ TotalOut + PendingWrites < MaxOut
                /\ th' = [th EXCEPT ![t] = [IdleTh EXCEPT !.pc = "log", !.op = "esev",
                              !.lg = l, !.S = S, !.T = T, !.lvl = S, !.ent = e,
                              !.n0 = WrittenBy(t)]]
           ELSE /\ th' = [th EXCEPT ![t] = [IdleTh EXCEPT !.pc = "ret", !.op = "esev",
                              !.lg = l, !.S = S, !.T = T, !.ent = e,
                              !.n0 = WrittenBy(t), !.res = "gated"]]
    /\ UNCHANGED <<trace, logger, loggers, std, entries, retained, out, status, last>>

-----------------------------------------------------------------------------
(* One caller, every threshold and every severity. *)
Next ==
    \/ \E v \in Levels : SetLevel(1, v)
    \/ \E S \in Levels : SevGate("t1", 1, S)
    \/ SevNewEntry("t1")
    \/ LogFormatLock("t1")
    \/ LogWriteUnlock("t1")
    \/ SevAfter("t1")
    \/ Return("t1")
    \/ Recover("t1")
    \/ Crash("t1")

Spec == Init /\ [][Next]_vars

(* A call that is past its gate runs on to its end. *)
CallStep(t) == SevNewEntry(t) \/ LogFormatLock(t) \/ LogWriteUnlock(t) \/ SevAfter(t)

SpecLive == Spec /\ WF_vars(CallStep("t1"))

(* One caller, With* views, branching and severity calls at Info and Panic. *)
EntrySevs == {InfoLevel, PanicLevel}

NextEntry ==
    \/ \E S \in EntrySevs : SevGate("t1", 1, S)
    \/ SevNewEntry("t1")
    \/ LogFormatLock("t1")
    \/ LogWriteUnlock("t1")
    \/ SevAfter("t1")
    \/ Return("t1")
    \/ Recover("t1")
    \/ Crash("t1")
    \/ \E arg \in WithArgs : WithNewEntry("t1", 1, arg)
    \/ WithReturn("t1")
    \/ \E e \in EntryIds, k \in UserKeys : EntryWithField("t1", e, k, "v2")
    \/ \E e \in EntryIds, S \in EntrySevs : EntrySevGate("t1", e, S)

SpecEntry == Init /\ [][NextEntry]_vars

(* Two callers on the one Logger. *)
ConcArg == [F |-> Put(NoFields, "a", "v1"), J |-> NoJson]

NextConc ==
    \/ \E t \in Threads, S \in EntrySevs : SevGate(t, 1, S)
    \/ \E t \in Threads : SevNewEntry(t)
    \/ \E t \in Threads : LogFormatLock(t)
    \/ \E t \in Threads : LogWriteUnlock(t)
    \/ \E t \in Threads : SevAfter(t)
    \/ \E t \in Threads : Return(t)
    \/ \E t \in Threads : Recover(t)
    \/ \E t \in Threads : Crash(t)
    \/ \E t \in Threads : WithNewEntry(t, 1, ConcArg)
    \/ \E t \in Threads : WithReturn(t)
    \/ \E t \in Threads, e \in EntryIds, S \in EntrySevs : EntrySevGate(t, e, S)

SpecConc == Init /\ [][NextConc]_vars

-----------------------------------------------------------------------------
(* Creating and configuring Loggers, by one caller between its calls. *)

Between == th["t1"].pc = "idle"

NameInputs == {<<>>} \cup {<<x>> : x \in Segments}

(* New(moduleNames...): the Logger is also appended to the package registry. *)
NewWithin(names, max) ==
    /\ Running /\ Between
    /\ Len(logger) < max
    /\ logger' = Append(logger, NewLogger(names))
    /\ loggers' = Append(loggers, Len(logger) + 1)
    /\ last' = [op |-> "New", recv |-> 0, names |-> names, result |-> Len(logger) + 1]
    /\ UNCHANGED <<trace, std, entries, th, retained, out, status>>

New(names) == NewWithin(names, MaxLoggers)

(* Logger.Sub(moduleNames...). *)
SubWithin(p, names, max) ==
    /\ Running /\ Between
    /\ p \in LoggerIds
    /\ IF SubReturnsReceiver(names)
       THEN /\ logger' = logger
            /\ last' = [op |-> "Sub", recv |-> p, names |-> names, result |-> p]
       ELSE /\ Len(logger) < max
            /\ logger' = Append(LoggersAfterAppend(logger, p, names), SubLogger(p, names))
            /\ last' = [op |-> "Sub", recv |-> p, names |-> names,
                        result |-> Len(logger) + 1]
    /\ UNCHANGED <<trace, loggers, std, entries, th, retained, out, status>>

Sub(p, names) == SubWithin(p, names, MaxLoggers)

(* StandardLogger(): the standard Logger, made by New() on first use and    *)
(* then appended to the registry, which New has appended it to already.     *)
StdAfter == IF std = 0 THEN Len(logger) + 1 ELSE std
LoggerAfterStd == IF std = 0 THEN Append(logger, NewLogger(<<>>)) ELSE logger
LoggersAfterStd ==
    IF std = 0 THEN Append(Append(loggers, Len(logger) + 1), Len(logger) + 1)
    ELSE loggers

StandardLogger ==
    /\ Running /\ Between
    /\ std = 0 => Len(logger) < MaxLoggers
    /\ logger' = LoggerAfterStd
    /\ loggers' = LoggersAfterStd
    /\ std' = StdAfter
    /\ last' = [op |-> "StandardLogger", recv |-> 0, names |-> <<>>, result |-> StdAfter]
    /\ UNCHANGED <<trace, entries, th, retained, out, status>>

(* The Loggers once SetOutput(w) has run on every Logger of the registry. *)
RegistryOut(reg, lgs, w) ==
    [l \in DOMAIN lgs |->
        IF \E i \in DOMAIN reg : reg[i] = l THEN [lgs[l] EXCEPT !.Out = w] ELSE lgs[l]]

(* The package-level SetOutput(out): logger.SetOutput(out) for every Logger *)
(* of the registry, each under that Logger's lock.                          *)
SetOutputAll(w) ==
    /\ Running /\ Between
    /\ \A i \in DOMAIN loggers :
          logger[loggers[i]].mu.disabled \/ logger[loggers[i]].mu.locked = NoThread
    /\ logger' = RegistryOut(loggers, logger, w)
    /\ last' = [op |-> "SetOutput", recv |-> 0, names |-> <<w>>, result |-> 0]
    /\ UNCHANGED <<trace, loggers, std, entries, th, retained, out, status>>

-----------------------------------------------------------------------------
(* The tracer. *)

(* The palette colours not yet marked used. *)
Unused(cs) == {c \in Palette : ~cs[c]}

(* generateNewChain: the colour of the new chain. The loop runs over the    *)
(* colour map in the map's iteration order and assigns every unused colour  *)
(* in turn, so the chain keeps the last one visited; nocolor when none is   *)
(* unused.                                                                  *)
ChainColorsWraps(cs) == IF Unused(cs) = {} THEN Palette ELSE Unused(cs)
ChainColors(cs) == IF Unused(cs) = {} THEN {nocolor} ELSE Unused(cs)

(* generateNewChain: the colour map afterwards. The loop has no break: every *)
(* unused colour is marked used.                                             *)
ColorsAfterGenerate(cs, c) == [x \in Palette |-> cs[x] \/ x \in Unused(cs)]

(* newTraceChain(color). *)
newTraceChain(c) == [blocks |-> <<>>, color |-> c]

(* newTraceBlock(chain.color, args, obj, fields); id counts the blocks ever *)
(* appended.                                                                *)
newTraceBlock(c, args, obj, id) == [color |-> c, args |-> args, Obj |-> obj, id |-> id]

(* All blocks appended so far. *)
RECURSIVE SumLen(_, _)
SumLen(f, D) ==
    IF D = {} THEN 0
    ELSE LET i == CHOOSE x \in D : TRUE IN Len(f[i].blocks) + SumLen(f, D \ {i})
NBlocks == SumLen(chains, DOMAIN chains)

(* The blocks of channel i. *)
Blocks(i) == IF i \in DOMAIN chains THEN chains[i].blocks ELSE <<>>

(* chains[index] = chain; chain.addBlock(block). *)
ChainsWithBlock(cs, i, chain, b) ==
    [x \in DOMAIN cs \cup {i} |->
        IF x = i THEN [chain EXCEPT !.blocks = Append(@, b)] ELSE cs[x]]

(* Trace(index, fields, obj, args...), args being the variadic slice. *)
TraceBody(t, i, obj, args) ==
    /\ Running
    /\ th[t].pc = "idle"
    /\ NBlocks < MaxBlocks
    /\ IF i \in DOMAIN chains
       THEN /\ chains' = ChainsWithBlock(chains, i, chains[i],
                              newTraceBlock(chains[i].color, args, obj, NBlocks + 1))
            /\ colors' = colors
       ELSE \E c \in ChainColors(colors) :
              /\ chains' = ChainsWithBlock(chains, i, newTraceChain(c),
                                newTraceBlock(c, args, obj, NBlocks + 1))
              /\ colors' = ColorsAfterGenerate(colors, c)
    /\ UNCHANGED <<orphans, logger, loggers, std, entries, th, retained, out, status>>

Trace(t, i, obj, args) == TraceBody(t, i, obj, args) /\ UNCHANGED last

(* TraceEnd(index): nothing to do without a chain, else the walk starts at  *)
(* the front of the chain's blocks.                                         *)
TraceEndCall(t, i) ==
    /\ Running
    /\ th[t].pc = "idle"
    /\ TotalOut + Len(Blocks(i)) <= MaxTraceOut
    /\ th' = [th EXCEPT ![t] =
                 [IdleTh EXCEPT !.pc = IF i \in DOMAIN chains THEN "tend" ELSE "ret",
                                !.op = "tend", !.idx = i, !.pos = 1,
                                !.n0 = WrittenBy(t), !.res = "return"]]
    /\ UNCHANGED <<trace, logger, loggers, std, entries, retained, out, status, last>>

(* json.Marshal(block.Obj) fails for a payload that cannot be serialised. *)
MarshalFails(obj) == obj = "bad"

(* printBlock up to the write: the record is rendered, panic(err) if the    *)
(* payload does not marshal, then logger := StandardLogger().               *)
PrintBlockRender(t) ==
    /\ Running
    /\ th[t].pc = "tend"
    /\ th[t].pos <= Len(Blocks(th[t].idx))
    /\ IF MarshalFails(Blocks(th[t].idx)[th[t].pos].Obj)
       THEN /\ th' = [th EXCEPT ![t].pc = "panicking", ![t].res = "panic"]
            /\ UNCHANGED <<logger, loggers, std>>
       ELSE /\ std = 0 => Len(logger) < MaxLoggers
            /\ th' = [th EXCEPT ![t].pc = "pwrite", ![t].lg = StdAfter]
            /\ logger' = LoggerAfterStd
            /\ loggers' = LoggersAfterStd
            /\ std' = StdAfter
    /\ UNCHANGED <<trace, entries, retained, out, status, last>>

(* The record printBlock writes for block b of channel i. *)
TraceRecord(t, i, b) ==
    [by |-> t, kind |-> "trace", chan |-> i, id |-> b.id, color |-> b.color,
     args |-> b.args, lg |-> th[t].lg, n0 |-> th[t].n0, epoch |-> NBlocks]

(* printBlock: logger.Out.Write(b.Bytes()), no lock taken; the walk moves   *)
(* on to the next block.                                                    *)
PrintBlockWrite(t) ==
    /\ Running
    /\ th[t].pc = "pwrite"
    /\ out' = [out EXCEPT ![logger[th[t].lg].Out] =
                  Append(@, TraceRecord(t, th[t].idx, Blocks(th[t].idx)[th[t].pos]))]
    /\ th' = [th EXCEPT ![t].pc = "tend", ![t].pos = @ + 1]
    /\ UNCHANGED <<trace, logger, loggers, std, entries, retained, status, last>>

(* The chain registry once TraceEnd(i) is over: the walk only reads the     *)
(* list, and the chain stays registered under its index.                    *)
ChainsAfterEndDropped(cs, i) == [x \in DOMAIN cs \ {i} |-> cs[x]]
ChainsAfterEnd(cs, i) == cs

(* TraceEnd: the walk is past the last block. *)
TraceEndReturn(t) ==
    /\ Running
    /\ th[t].pc = "tend"
    /\ th[t].pos > Len(Blocks(th[t].idx))
    /\ th' = [th EXCEPT ![t].pc = "ret"]
    /\ chains' = ChainsAfterEnd(chains, th[t].idx)
    /\ colors' = colors
    /\ orphans' = orphans
    /\ UNCHANGED <<logger, loggers, std, entries, retained, out, status, last>>

(* Trace step by step, for callers that run concurrently. A chain is an     *)
(* object on the heap, known by the caller that created it; the registry    *)
(* holds one chain per channel, and orphans holds the chains that were      *)
(* created and then replaced in the registry, by the caller that created    *)
(* them.                                                                    *)

(* All blocks in chains no longer registered. *)
NOrphanBlocks == SumLen(orphans, DOMAIN orphans)

(* Trace calls that have not appended their block yet. *)
PendingBlocks == Cardinality({t \in Threads : th[t].pc \in {"tcreate", "tappend"}})

(* A TraceEnd call is in flight. *)
Flushing == \E t \in Threads : th[t].op = "tend"

(* chain, ok := chains[index]. *)
TraceLookup(t, i, obj, args) ==
    /\ Running
    /\ th[t].pc = "idle"
    /\ ~Flushing
    /\ NBlocks + NOrphanBlocks + PendingBlocks < MaxBlocks
    /\ th' = [th EXCEPT ![t] =
                 [IdleTh EXCEPT !.pc = IF i \in DOMAIN chains THEN "tappend" ELSE "tcreate",
                                !.op = "trace", !.idx = i, !.val = obj, !.targs = args,
                                !.ok = i \in DOMAIN chains,
                                !.chain = IF i \in DOMAIN chains THEN chains[i].by
                                          ELSE NoThread]]
    /\ UNCHANGED <<trace, logger, loggers, std, entries, retained, out, status, last>>

(* chains[index] = chain: the chain stored replaces whatever the registry   *)
(* holds for the index.                                                     *)
ChainsAfterStoreKeeps(cs, i, chain) ==
    [x \in DOMAIN cs \cup {i} |-> IF x \in DOMAIN cs THEN cs[x] ELSE chain]
ChainsAfterStore(cs, i, chain) ==
    [x \in DOMAIN cs \cup {i} |-> IF x = i THEN chain ELSE cs[x]]

(* The chains no longer registered once a chain is stored under index i. *)
OrphansAfterStore(i) ==
    IF i \in DOMAIN chains
    THEN [x \in DOMAIN orphans \cup {chains[i].by} |->
             IF x = chains[i].by THEN chains[i] ELSE orphans[x]]
    ELSE orphans

(* if ok == false { chain = generateNewChain(); chains[index] = chain }. *)
TraceCreate(t) ==
    /\ Running
    /\ th[t].pc = "tcreate"
    /\ \E c \in ChainColors(colors) :
          /\ chains' = ChainsAfterStore(chains, th[t].idx,
                            [blocks |-> <<>>, color |-> c, by |-> t])
          /\ colors' = ColorsAfterGenerate(colors, c)
    /\ orphans' = OrphansAfterStore(th[t].idx)
    /\ th' = [th EXCEPT ![t].pc = "tappend", ![t].chain = t]
    /\ UNCHANGED <<logger, loggers, std, entries, retained, out, status, last>>

(* The chain the caller's local variable points to is the registered one. *)
HoldsRegistered(t) ==
    th[t].idx \in DOMAIN chains /\ chains[th[t].idx].by = th[t].chain

(* chain.addBlock(newTraceBlock(chain.color, args, obj, fields)): the block *)
(* goes to the chain the caller's local variable points to.                 *)
TraceAppend(t) ==
    /\ Running
    /\ th[t].pc = "tappend"
    /\ LET id == NBlocks + NOrphanBlocks + 1
           i == th[t].idx
       IN  IF HoldsRegistered(t)
           THEN /\ chains' = [chains EXCEPT ![i].blocks =
                                  Append(@, newTraceBlock(chains[i].color, th[t].targs,
                                                          th[t].val, id))]
                /\ orphans' = orphans
           ELSE /\ orphans' = [orphans EXCEPT ![th[t].chain].blocks =
                                   Append(@, newTraceBlock(orphans[th[t].chain].color,
                                                           th[t].targs, th[t].val, id))]
                /\ chains' = chains
    /\ colors' = colors
    /\ th' = [th EXCEPT ![t].pc = "ret"]
    /\ UNCHANGED <<logger, loggers, std, entries, retained, out, status, last>>

(* Two callers write the maps at the same time: the runtime stops the       *)
(* process (concurrent map writes).                                         *)
TraceMapFault ==
    /\ Running
    /\ \A t \in Threads : th[t].pc = "tcreate"
    /\ status' = "crashed"
    /\ UNCHANGED <<trace, logger, loggers, std, entries, th, retained, out, last>>

(* TraceEnd once no Trace call is in flight. *)
TraceEndLater(t, i) ==
    /\ \A u \in Threads : th[u].op # "trace"
    /\ TraceEndCall(t, i)

(* Two callers: Trace on channel 0 in every interleaving of its steps, and  *)
(* TraceEnd(0) afterwards.                                                  *)
NextTraceRace ==
    \/ \E t \in Threads, obj \in TraceObjs, args \in TraceMsgs : TraceLookup(t, 0, obj, args)
    \/ \E t \in Threads : TraceCreate(t)
    \/ \E t \in Threads : TraceAppend(t)
    \/ TraceMapFault
    \/ \E t \in Threads : TraceEndLater(t, 0)
    \/ \E t \in Threads : PrintBlockRender(t)
    \/ \E t \in Threads : PrintBlockWrite(t)
    \/ \E t \in Threads : TraceEndReturn(t)
    \/ \E t \in Threads : Return(t)
    \/ \E t \in Threads : Recover(t)
    \/ \E t \in Threads : Crash(t)

SpecTraceRace == InitReg /\ [][NextTraceRace]_vars

-----------------------------------------------------------------------------
(* Chains of Sub calls: Loggers made by New and derived one from another.   *)

NextSub ==
    \/ \E names \in SubRoots : NewWithin(names, MaxSubLoggers)
    \/ \E p \in LoggerIds, x \in SubSegments : SubWithin(p, <<x>>, MaxSubLoggers)
    \/ \E p \in LoggerIds : SubWithin(p, <<>>, MaxSubLoggers)

SpecSub == InitReg /\ [][NextSub]_vars

-----------------------------------------------------------------------------
(* The package-level functions called by several callers at once, from the  *)
(* first use on: StandardLogger in its steps, which nothing synchronises.   *)

StdLevels == {InfoLevel, ErrorLevel}
PkgOps == {"SetLevel", "GetLevel"}

(* SetLevel(level) / GetLevel(): entered, StandardLogger() not yet called. *)
PkgCall(t, f, v) ==
    /\ Running
    /\ th[t].pc = "idle"
    /\ th' = [th EXCEPT ![t] = [IdleTh EXCEPT !.pc = "std", !.op = f, !.lvl = v]]
    /\ UNCHANGED <<trace, logger, loggers, std, entries, retained, out, status, last>>

(* StandardLogger: if std == nil. *)
StdCheck(t) ==
    /\ Running
    /\ th[t].pc = "std"
    /\ th' = [th EXCEPT ![t].pc = IF std = 0 THEN "stdnew" ELSE "stdret"]
    /\ UNCHANGED <<trace, logger, loggers, std, entries, retained, out, status, last>>

(* StandardLogger: New(), which appends the Logger to the registry. *)
StdNew(t) ==
    /\ Running
    /\ th[t].pc = "stdnew"
    /\ logger' = Append(logger, NewLogger(<<>>))
    /\ loggers' = Append(loggers, Len(logger) + 1)
    /\ th' = [th EXCEPT ![t].pc = "stdstore", ![t].lg = Len(logger) + 1]
    /\ UNCHANGED <<trace, std, entries, retained, out, status, last>>

(* StandardLogger: std = ...; loggers = append(loggers, std). *)
StdStore(t) ==
    /\ Running
    /\ th[t].pc = "stdstore"
    /\ std' = th[t].lg
    /\ loggers' = Append(loggers, th[t].lg)
    /\ th' = [th EXCEPT ![t].pc = "stdret"]
    /\ UNCHANGED <<trace, logger, entries, retained, out, status, last>>

(* StandardLogger: return std. *)
StdReturn(t) ==
    /\ Running
    /\ th[t].pc = "stdret"
    /\ th' = [th EXCEPT ![t].pc = "got", ![t].lg = std]
    /\ UNCHANGED <<trace, logger, loggers, std, entries, retained, out, status, last>>

(* SetLevel: logger.SetLevel(level) on the Logger StandardLogger returned. *)
PkgSetLevel(t) ==
    /\ Running
    /\ th[t].pc = "got" /\ th[t].op = "SetLevel"
    /\ logger' = [logger EXCEPT ![th[t].lg].Level = th[t].lvl]
    /\ th' = [th EXCEPT ![t].pc = "ret"]
    /\ last' = [op |-> "SetLevel", recv |-> th[t].lg, names |-> <<>>,
                result |-> th[t].lvl]
    /\ UNCHANGED <<trace, loggers, std, entries, retained, out, status>>

(* GetLevel: return logger.Level of the Logger StandardLogger returned. *)
PkgGetLevel(t) ==
    /\ Running
    /\ th[t].pc = "got" /\ th[t].op = "GetLevel"
    /\ th' = [th EXCEPT ![t].pc = "ret", ![t].T = logger[th[t].lg].Level]
    /\ UNCHANGED <<trace, logger, loggers, std, entries, retained, out, status, last>>

NextStd ==
    \/ \E t \in Threads, v \in StdLevels : PkgCall(t, "SetLevel", v)
    \/ \E t \in Threads : PkgCall(t, "GetLevel", 0)
    \/ \E t \in Threads : StdCheck(t)
    \/ \E t \in Threads : StdNew(t)
    \/ \E t \in Threads : StdStore(t)
    \/ \E t \in Threads : StdReturn(t)
    \/ \E t \in Threads : PkgSetLevel(t)
    \/ \E t \in Threads : PkgGetLevel(t)
    \/ \E t \in Threads : Return(t)

SpecStd == InitReg /\ [][NextStd]_vars

(* One caller: Trace and TraceEnd over the channels. *)
NextTrace ==
    \/ \E i \in Channels, obj \in TraceObjs, args \in TraceMsgs : Trace("t1", i, obj, args)
    \/ \E i \in Channels : TraceEndCall("t1", i)
    \/ PrintBlockRender("t1")
    \/ PrintBlockWrite("t1")
    \/ TraceEndReturn("t1")
    \/ Return("t1")
    \/ Recover("t1")
    \/ Crash("t1")

SpecTrace == InitReg /\ [][NextTrace]_vars

-----------------------------------------------------------------------------
(* The helpers around Trace. An argument value is a string, nil, or a slice *)
(* of argument values.                                                      *)

Str(x) == [str |-> x]
NilArg == [nil |-> TRUE]
Slice(q) == [slice |-> q]

HelperArgs == {<<>>, <<Str("A")>>, <<Str("A"), Str("B")>>}
HelperObjs == {"ok", "bad"}
ArgsHelpers == {"TraceArgs", "TraceArgsDefault"}
NoArgsHelpers == {"TraceWithStruct", "TraceWithStructDefault",
                  "TraceFileds", "TraceFiledsDefault"}

IsString(v) == "str" \in DOMAIN v

(* fmt.Sprint(a...): the operands in their default formats, with a space    *)
(* between two operands when neither is a string; a slice prints as its     *)
(* elements between brackets, nil as <nil>.                                 *)
RECURSIVE SprintArg(_), SprintElems(_), SprintFrom(_, _)
SprintArg(v) ==
    IF IsString(v) THEN v.str
    ELSE IF "slice" \in DOMAIN v THEN "[" \o SprintElems(v.slice) \o "]"
    ELSE "<nil>"
SprintElems(q) ==
    IF Len(q) = 0 THEN ""
    ELSE IF Len(q) = 1 THEN SprintArg(q[1])
    ELSE SprintArg(q[1]) \o " " \o SprintElems(Tail(q))
SprintFrom(a, n) ==
    IF n > Len(a) THEN ""
    ELSE (IF n > 1 /\ ~IsString(a[n]) /\ ~IsString(a[n - 1]) THEN " " ELSE "")
         \o SprintArg(a[n]) \o SprintFrom(a, n + 1)
Sprint(a) == SprintFrom(a, 1)

(* A helper hands Trace one value for the variadic parameter: Trace's args  *)
(* is the slice holding that value.                                         *)
HelperCall(t, f, i, obj, given, v) ==
    /\ TraceBody(t, i, obj, <<v>>)
    /\ last' = [op |-> f, recv |-> i, names |-> given, result |-> NBlocks + 1]

(* TraceArgs(index, args...): Trace(index, nil, nil, args). *)
TraceArgs(t, i, as) == HelperCall(t, "TraceArgs", i, "nil", as, Slice(as))

(* TraceArgsDefault(args...): Trace(0, nil, nil, args). *)
TraceArgsDefault(t, as) == HelperCall(t, "TraceArgsDefault", 0, "nil", as, Slice(as))

(* TraceWithStruct(index, obj): Trace(index, nil, obj, nil). *)
TraceWithStruct(t, i, obj) == HelperCall(t, "TraceWithStruct", i, obj, <<>>, NilArg)

(* TraceWithStructDefault(obj): Trace(0, nil, obj, nil). *)
TraceWithStructDefault(t, obj) ==
    HelperCall(t, "TraceWithStructDefault", 0, obj, <<>>, NilArg)

(* TraceFileds(index, fields): Trace(index, fields, nil, nil). *)
TraceFileds(t, i) == HelperCall(t, "TraceFileds", i, "nil", <<>>, NilArg)

(* TraceFiledsDefault(fields): Trace(0, fields, nil, nil). *)
TraceFiledsDefault(t) == HelperCall(t, "TraceFiledsDefault", 0, "nil", <<>>, NilArg)

NextHelpers ==
    \/ \E i \in Channels, as \in HelperArgs : TraceArgs("t1", i, as)
    \/ \E as \in HelperArgs : TraceArgsDefault("t1", as)
    \/ \E i \in Channels, obj \in HelperObjs : TraceWithStruct("t1", i, obj)
    \/ \E obj \in HelperObjs : TraceWithStructDefault("t1", obj)
    \/ \E i \in Channels : TraceFileds("t1", i)
    \/ TraceFiledsDefault("t1")

SpecHelpers == InitReg /\ [][NextHelpers]_vars

-----------------------------------------------------------------------------
(* WithMultiLines and WithLongString. A text is a sequence of characters,   *)
(* a separator is one character; WithMultiLines is WithLongString with the  *)
(* separator "\n".                                                          *)

Texts == UNION {[1 .. n -> TextChars] : n \in 0 .. MaxText}

(* strings.Split(longStr, sep). *)
RECURSIVE SplitFrom(_, _, _, _)
SplitFrom(text, sep, cur, acc) ==
    IF text = <<>> THEN Append(acc, cur)
    ELSE IF Head(text) = sep THEN SplitFrom(Tail(text), sep, "", Append(acc, cur))
    ELSE SplitFrom(Tail(text), sep, cur \o Head(text), acc)
Split(text, sep) == SplitFrom(text, sep, "", <<>>)

(* fmt.Sprintf("%s-%d", key, index). *)
LineKey(key, index) == key \o "-" \o ToString(index)

(* The loop of the Logger's method over the first n segments: one field per *)
(* non-empty segment, keyed by the segment's zero-based position.           *)
RECURSIVE LinesFields(_, _, _)
LinesFields(key, lns, n) ==
    IF n = 0 THEN NoFields
    ELSE IF Len(lns[n]) <= 0 THEN LinesFields(key, lns, n - 1)
    ELSE Put(LinesFields(key, lns, n - 1), LineKey(key, n - 1), lns[n])

(* The non-empty segments. *)
NonEmpty(lns) == {i \in DOMAIN lns : Len(lns[i]) > 0}

(* Logger.WithLongString / Logger.WithMultiLines: newEntry, then the fields *)
(* map is filled from the segments.                                         *)
LinesNewEntry(t, l, key, text, sep) ==
    /\ Running
    /\ th[t].pc = "idle"
    /\ l \in LoggerIds
    /\ LET lns == Split(text, sep)
           call == [IdleTh EXCEPT !.pc = "wret", !.op = "lines", !.lg = l, !.key = key,
                                  !.segs = lns,
                                  !.arg = [F |-> LinesFields(key, lns, Len(lns)),
                                           J |-> NoJson]]
       IN  \/ \E e \in logger[l].entryPool :
                /\ Len(entries) + 1 <= MaxEntries
                /\ logger' = [logger EXCEPT ![l].entryPool = PoolAfterGet(@, e)]
                /\ entries' = entries
                /\ th' = [th EXCEPT ![t] = [call EXCEPT !.ent = e, !.fromPool = TRUE]]
           \/ /\ Len(entries) + 2 <= MaxEntries
              /\ entries' = Append(entries, NewEntry(l))
              /\ logger' = logger
              /\ th' = [th EXCEPT ![t] = [call EXCEPT !.ent = Len(entries) + 1]]
    /\ UNCHANGED <<trace, loggers, std, retained, out, status, last>>

(* The package-level WithLongString / WithMultiLines is entered:            *)
(* StandardLogger(), var entry *Entry, the text is split.                   *)
PkgLinesCall(t, key, text, sep) ==
    /\ Running
    /\ th[t].pc = "idle"
    /\ std = 0 => Len(logger) < MaxLoggers
    /\ Len(entries) + Cardinality(NonEmpty(Split(text, sep))) + 1 <= MaxEntries
    /\ logger' = LoggerAfterStd
    /\ loggers' = LoggersAfterStd
    /\ std' = StdAfter
    /\ th' = [th EXCEPT ![t] = [IdleTh EXCEPT !.pc = "ploop", !.op = "plines",
                                            !.lg = StdAfter, !.key = key,
                                            !.segs = Split(text, sep), !.pos = 1]]
    /\ UNCHANGED <<trace, entries, retained, out, status, last>>

(* The loop skips an empty segment. *)
PkgLinesSkip(t) ==
    /\ Running
    /\ th[t].pc = "ploop"
    /\ th[t].pos <= Len(th[t].segs)
    /\ Len(th[t].segs[th[t].pos]) <= 0
    /\ th' = [th EXCEPT ![t].pos = @ + 1]
    /\ UNCHANGED <<trace, logger, loggers, std, entries, retained, out, status, last>>

(* The loop calls logger.WithField for a non-empty segment: newEntry. *)
PkgLinesNewEntry(t) ==
    /\ Running
    /\ th[t].pc = "ploop"
    /\ th[t].pos <= Len(th[t].segs)
    /\ Len(th[t].segs[th[t].pos]) > 0
    /\ LET l == th[t].lg
       IN  \/ \E e \in logger[l].entryPool :
                /\ logger' = [logger EXCEPT ![l].entryPool = PoolAfterGet(@, e)]
                /\ entries' = entries
                /\ th' = [th EXCEPT ![t].pc = "pwith", ![t].ent = e]
           \/ /\ entries' = Append(entries, NewEntry(l))
              /\ logger' = logger
              /\ th' = [th EXCEPT ![t].pc = "pwith", ![t].ent = Len(entries) + 1]
    /\ UNCHANGED <<trace, loggers, std, retained, out, status, last>>

(* logger.WithField returns: entry = the new view, which replaces the one   *)
(* of the previous round; the pooled Entry is released.                     *)
PkgLinesAssign(t) ==
    /\ Running
    /\ th[t].pc = "pwith"
    /\ LET l == th[t].lg
           e == th[t].ent
           F == Put(NoFields, LineKey(th[t].key, th[t].pos - 1), th[t].segs[th[t].pos])
       IN  /\ entries' = Branch(e, EntryWithFields(e, F))
           /\ logger' = [logger EXCEPT ![l].entryPool =
                             @ \cup {ReleasedByWith(e, Len(entries) + 1)}]
           /\ th' = [th EXCEPT ![t].pc = "ploop", ![t].view = Len(entries) + 1,
                               ![t].pos = @ + 1]
    /\ UNCHANGED <<trace, loggers, std, retained, out, status, last>>

(* return entry: nil when no round assigned it. *)
PkgLinesReturn(t) ==
    /\ Running
    /\ th[t].pc = "ploop"
    /\ th[t].pos > Len(th[t].segs)
    /\ retained' = [retained EXCEPT ![t] = IF th[t].view = 0 THEN @ ELSE @ \cup {th[t].view}]
    /\ th' = [th EXCEPT ![t] = IdleTh]
    /\ UNCHANGED <<trace, logger, loggers, std, entries, out, status, last>>

(* One caller: the Logger's methods on the Logger made by New and the       *)
(* package-level functions.                                                 *)
NextLines ==
    \/ \E key \in LineKeys, text \in Texts, sep \in Seps :
          LinesNewEntry("t1", 1, key, text, sep)
    \/ WithReturn("t1")
    \/ \E key \in LineKeys, text \in Texts, sep \in Seps :
          PkgLinesCall("t1", key, text, sep)
    \/ PkgLinesSkip("t1")
    \/ PkgLinesNewEntry("t1")
    \/ PkgLinesAssign("t1")
    \/ PkgLinesReturn("t1")

SpecLines == Init /\ [][NextLines]_vars

-----------------------------------------------------------------------------
(* Logger.WithStruct. *)

(* json.Marshal(value): the bytes, none when it fails. *)
Marshal(v) == IF MarshalFails(v) THEN NoJson ELSE "js"

(* The Logger whose WithError takes the marshal error: the receiver of      *)
(* WithStruct.                                                              *)
WithErrorReceiverStd(l) == std
WithErrorReceiver(l) == l

(* What the Entry is given: the error under ErrorKey when json.Marshal      *)
(* fails, else the bytes as the JSON payload.                               *)
WithStructArg(v) ==
    IF MarshalFails(v) THEN [F |-> Put(NoFields, ErrorKey, "err"), J |-> NoJson]
    ELSE [F |-> NoFields, J |-> Marshal(v)]

(* Logger.WithStruct(value) up to newEntry of the method it forwards to:    *)
(* WithError of the receiver on failure, WithJsonRaw of the receiver else.  *)
StructNewEntry(t, l, v) ==
    /\ Running
    /\ th[t].pc = "idle"
    /\ l \in LoggerIds
    /\ LET r == IF MarshalFails(v) THEN WithErrorReceiver(l) ELSE l
           call == [IdleTh EXCEPT !.pc = "wret", !.op = "struct", !.lg = r, !.recv = l,
                                  !.val = v, !.arg = WithStructArg(v)]
       IN  /\ r \in LoggerIds
           /\ \/ \E e \in logger[r].entryPool :
                    /\ Len(entries) + 1 <= MaxEntries
                    /\ logger' = [logger EXCEPT ![r].entryPool = PoolAfterGet(@, e)]
                    /\ entries' = entries
                    /\ th' = [th EXCEPT ![t] = [call EXCEPT !.ent = e, !.fromPool = TRUE]]
              \/ /\ Len(entries) + 2 <= MaxEntries
                 /\ entries' = Append(entries, NewEntry(r))
                 /\ logger' = logger
                 /\ th' = [th EXCEPT ![t] = [call EXCEPT !.ent = Len(entries) + 1]]
    /\ UNCHANGED <<trace, loggers, std, retained, out, status, last>>

(* One caller: WithStruct on any Logger, beside the standard Logger, and    *)
(* Info on the Entries it got.                                              *)
NextStruct ==
    \/ StandardLogger
    \/ \E l \in LoggerIds, v \in StructValues : StructNewEntry("t1", l, v)
    \/ WithReturn("t1")
    \/ \E e \in EntryIds : EntrySevGate("t1", e, InfoLevel)
    \/ LogFormatLock("t1")
    \/ LogWriteUnlock("t1")
    \/ SevAfter("t1")
    \/ Return("t1")

SpecStruct == Init /\ [][NextStruct]_vars

-----------------------------------------------------------------------------
(* The text formatter's truncation of a field value. A value is the         *)
(* sequence of its characters; the character at position i is written i,    *)
(* the character "." is written Dot.                                        *)

MaxWidth == 128
Dot == 0
Ellipsis == <<Dot, Dot, Dot>>

(* The stringified value of n characters. *)
ValueOfLen(n) == [i \in 1 .. n |-> i]

(* The width once tripHeadAndTail has made it even. *)
EvenCount(count) == IF count % 2 # 0 THEN count + 1 ELSE count

(* tripHeadAndTail(src, count):                                             *)
(*   src[:count/2] + "..." + src[length-count/2 : length-1].                *)
tripHeadAndTail(src, count) ==
    IF Len(src) <= count THEN src
    ELSE LET half == EvenCount(count) \div 2
         IN  SubSeq(src, 1, half) \o Ellipsis
                 \o SubSeq(src, Len(src) - half + 1, Len(src) - 1)

(* Format comes to a field: value := fmt.Sprintf("%+v", data[key]). *)
FormatValue(t, n) ==
    /\ Running
    /\ th[t].pc = "idle"
    /\ th' = [th EXCEPT ![t] = [IdleTh EXCEPT !.pc = "trip", !.op = "format",
                                            !.src = ValueOfLen(n)]]
    /\ UNCHANGED <<trace, logger, loggers, std, entries, retained, out, status, last>>

(* Format prints tripHeadAndTail(value, 128) for the field. *)
FormatTrip(t) ==
    /\ Running
    /\ th[t].pc = "trip"
    /\ th' = [th EXCEPT ![t].pc = "ret",
                        ![t].rendered = tripHeadAndTail(th[t].src, MaxWidth)]
    /\ UNCHANGED <<trace, logger, loggers, std, entries, retained, out, status, last>>

(* One caller: field values of every length up to MaxValueLen are rendered. *)
NextTrip ==
    \/ \E n \in 0 .. MaxValueLen : FormatValue("t1", n)
    \/ FormatTrip("t1")
    \/ Return("t1")

SpecTrip == Init /\ [][NextTrip]_vars

-----------------------------------------------------------------------------
(* AddFields, and the calls that can unwind without an enabled Panic. *)

(* An argument of AddFields: a value with its dynamic type. *)
ArgElems == {[type |-> "string", v |-> "a"], [type |-> "int", v |-> "7"]}
ArgLists == UNION {[1 .. n -> ArgElems] : n \in 0 .. MaxArgs}

(* if len(args)%2 != 0 { args = append(args, "") }. *)
PaddedArgs(args) ==
    IF Len(args) % 2 # 0 THEN Append(args, [type |-> "string", v |-> ""]) ELSE args

(* The key positions: i = 0, 2, .. max (here counted from 1). *)
KeyPositions(args) == {i \in DOMAIN PaddedArgs(args) : i % 2 = 1}

(* args[i].(string) panics when the argument at a key position is not a     *)
(* string.                                                                  *)
AddFieldsPanics(args) ==
    \E i \in KeyPositions(args) : PaddedArgs(args)[i].type # "string"

(* data[args[i].(string)] = args[i+1], later pairs overwriting earlier ones. *)
RECURSIVE AddFieldsData(_, _)
AddFieldsData(args, n) ==
    IF n <= 0 THEN NoFields
    ELSE Put(AddFieldsData(args, n - 2), args[n - 1].v, args[n].v)

(* AddFields(args...): the pairs are collected, then WithFields(data) goes  *)
(* to StandardLogger().                                                     *)
AddFieldsCall(t, args) ==
    /\ Running
    /\ th[t].pc = "idle"
    /\ IF AddFieldsPanics(args)
       THEN /\ th' = [th EXCEPT ![t] = [IdleTh EXCEPT !.pc = "panicking",
                                                    !.op = "addfields", !.res = "panic"]]
            /\ UNCHANGED <<logger, loggers, std>>
       ELSE /\ std = 0 => Len(logger) < MaxLoggers
            /\ Len(entries) + 2 <= MaxEntries
            /\ th' = [th EXCEPT ![t] =
                         [IdleTh EXCEPT !.pc = "afnew", !.op = "addfields", !.lg = StdAfter,
                              !.arg = [F |-> AddFieldsData(PaddedArgs(args),
                                                           Len(PaddedArgs(args))),
                                       J |-> NoJson]]]
            /\ logger' = LoggerAfterStd
            /\ loggers' = LoggersAfterStd
            /\ std' = StdAfter
    /\ UNCHANGED <<trace, entries, retained, out, status, last>>

(* logger.WithFields(data): newEntry. *)
AddFieldsNewEntry(t) ==
    /\ Running
    /\ th[t].pc = "afnew"
    /\ LET l == th[t].lg
       IN  \/ \E e \in logger[l].entryPool :
                /\ logger' = [logger EXCEPT ![l].entryPool = PoolAfterGet(@, e)]
                /\ entries' = entries
                /\ th' = [th EXCEPT ![t].pc = "wret", ![t].ent = e, ![t].fromPool = TRUE]
           \/ /\ entries' = Append(entries, NewEntry(l))
              /\ logger' = logger
              /\ th' = [th EXCEPT ![t].pc = "wret", ![t].ent = Len(entries) + 1]
    /\ UNCHANGED <<trace, loggers, std, retained, out, status, last>>

(* The package-level WithLongString / WithMultiLines returns nil and the    *)
(* caller calls a severity method on the result: the method reads           *)
(* entry.Logger through the nil pointer.                                    *)
PkgLinesNilSev(t, S) ==
    /\ Running
    /\ th[t].pc = "ploop"
    /\ th[t].pos > Len(th[t].segs)
    /\ th[t].view = 0
    /\ th' = [th EXCEPT ![t] = [IdleTh EXCEPT !.pc = "panicking", !.op = "nilsev",
                                            !.S = S, !.res = "panic"]]
    /\ UNCHANGED <<trace, logger, loggers, std, entries, retained, out, status, last>>

(* Texts with no non-empty segment, and one with a segment. *)
FewTexts == {<<>>, <<"\n">>, <<"x">>}

(* One caller: tracing on channel 0, AddFields, the package-level           *)
(* WithMultiLines with a severity call on its result, and Panic on the      *)
(* Logger made by New.                                                      *)
NextPanics ==
    \/ \E obj \in TraceObjs, args \in TraceMsgs :
          NBlocks < MaxRaceBlocks /\ Trace("t1", 0, obj, args)
    \/ TraceEndCall("t1", 0)
    \/ PrintBlockRender("t1")
    \/ PrintBlockWrite("t1")
    \/ TraceEndReturn("t1")
    \/ \E args \in ArgLists : AddFieldsCall("t1", args)
    \/ AddFieldsNewEntry("t1")
    \/ WithReturn("t1")
    \/ \E key \in LineKeys, text \in FewTexts : PkgLinesCall("t1", key, text, "\n")
    \/ PkgLinesSkip("t1")
    \/ PkgLinesNewEntry("t1")
    \/ PkgLinesAssign("t1")
    \/ PkgLinesReturn("t1")
    \/ PkgLinesNilSev("t1", InfoLevel)
    \/ \E S \in {InfoLevel, PanicLevel} : SevGate("t1", 1, S)
    \/ SevNewEntry("t1")
    \/ LogFormatLock("t1")
    \/ LogWriteUnlock("t1")
    \/ SevAfter("t1")
    \/ Return("t1")
    \/ Recover("t1")
    \/ Crash("t1")

SpecPanics == Init /\ [][NextPanics]_vars

-----------------------------------------------------------------------------
(* Logger.Print, Printf, Println. *)

(* The level Print hands to entry.log: logger.Level. *)
PrintLevelArg(T) == T

(* Print has no gate: entry := logger.newEntry() comes first. *)
PrintCall(t, l) ==
    /\ Running
    /\ th[t].pc = "idle"
    /\ l \in LoggerIds
    /\ TotalOut + PendingWrites < MaxOut
    /\ th' = [th EXCEPT ![t] = [IdleTh EXCEPT !.pc = "new", !.op = "print", !.lg = l,
                                            !.S = InfoLevel, !.T = logger[l].Level,
                                            !.lvl = PrintLevelArg(logger[l].Level),
                                            !.n0 = WrittenBy(t)]]
    /\ UNCHANGED <<trace, logger, loggers, std, entries, retained, out, status, last>>

(* One caller: SetLevel to any level between its calls, and Print. *)
NextPrint ==
    \/ \E v \in Levels : Between /\ SetLevel(1, v)
    \/ PrintCall("t1", 1)
    \/ SevNewEntry("t1")
    \/ LogFormatLock("t1")
    \/ LogWriteUnlock("t1")
    \/ SevAfter("t1")
    \/ Return("t1")
    \/ Recover("t1")
    \/ Crash("t1")

SpecPrint == Init /\ [][NextPrint]_vars

-----------------------------------------------------------------------------
(* Configuration calls step by step, for callers that run concurrently. *)

(* Logger.SetLevel is entered: no lock is taken before the store. *)
SetLevelCall(t, l, v) ==
    /\ Running
    /\ th[t].pc = "idle"
    /\ l \in LoggerIds
    /\ th' = [th EXCEPT ![t] = [IdleTh EXCEPT !.pc = "setlevel", !.op = "SetLevel",
                                            !.lg = l, !.lvl = v]]
    /\ UNCHANGED <<trace, logger, loggers, std, entries, retained, out, status, last>>

(* Logger.SetLevel: logger.Level = level. *)
SetLevelStore(t) ==
    /\ Running
    /\ th[t].pc = "setlevel"
    /\ logger' = [logger EXCEPT ![th[t].lg].Level = th[t].lvl]
    /\ th' = [th EXCEPT ![t].pc = "ret"]
    /\ UNCHANGED <<trace, loggers, std, entries, retained, out, status, last>>

(* Logger.SetOutput: logger.mu.Lock(). *)
SetOutputLock(t, l, w) ==
    /\ Running
    /\ th[t].pc = "idle"
    /\ l \in LoggerIds
    /\ logger[l].mu.disabled \/ logger[l].mu.locked = NoThread
    /\ logger' = IF logger[l].mu.disabled THEN logger
                 ELSE [logger EXCEPT ![l].mu.locked = t]
    /\ th' = [th EXCEPT ![t] = [IdleTh EXCEPT !.pc = "setout", !.op = "SetOutput",
                                            !.lg = l, !.res = w]]
    /\ UNCHANGED <<trace, loggers, std, entries, retained, out, status, last>>

(* Logger.SetOutput: logger.Out = out, then the deferred Unlock. *)
SetOutputStore(t) ==
    /\ Running
    /\ th[t].pc = "setout"
    /\ logger' = [logger EXCEPT ![th[t].lg].Out = th[t].res,
                                ![th[t].lg].mu.locked =
                                    IF logger[th[t].lg].mu.disabled THEN @ ELSE NoThread]
    /\ th' = [th EXCEPT ![t].pc = "ret"]
    /\ UNCHANGED <<trace, loggers, std, entries, retained, out, status, last>>

(* Two callers on the standard Logger: t1 logs, redirects the output and    *)
(* buffers trace blocks on channel 0, t2 sets the level and flushes the     *)
(* channel.                                                                 *)
RaceLevels == {InfoLevel}
RaceSevs == {InfoLevel}

NextRace ==
    \/ StandardLogger
    \/ \E v \in RaceLevels : std # 0 /\ SetLevelCall("t2", std, v)
    \/ SetLevelStore("t2")
    \/ \E w \in PkgWriters : std # 0 /\ SetOutputLock("t1", std, w)
    \/ SetOutputStore("t1")
    \/ \E S \in RaceSevs : std # 0 /\ SevGate("t1", std, S)
    \/ SevNewEntry("t1")
    \/ LogFormatLock("t1")
    \/ LogWriteUnlock("t1")
    \/ SevAfter("t1")
    \/ \E t \in Threads : Return(t)
    \/ \E args \in TraceMsgs : NBlocks < MaxRaceBlocks /\ Trace("t1", 0, "ok", args)
    \/ TraceEndCall("t2", 0)
    \/ PrintBlockRender("t2")
    \/ PrintBlockWrite("t2")
    \/ TraceEndReturn("t2")

SpecRace == InitReg /\ [][NextRace]_vars

RegLevels == {ErrorLevel}
CfgCount ==
    Cardinality({l \in LoggerIds : logger[l].Level \in RegLevels})
    + Cardinality({l \in LoggerIds : logger[l].Out # "stderr"})
    + Cardinality({l \in LoggerIds : logger[l].mu.disabled})
CanConfig == Between /\ CfgCount < MaxConfigs
RegSevs == {DebugLevel, InfoLevel}

NextReg ==
    \/ \E names \in NameInputs : New(names)
    \/ \E p \in LoggerIds, names \in NameInputs : Sub(p, names)
    \/ \E l \in LoggerIds, v \in RegLevels : CanConfig /\ SetLevel(l, v)
    \/ \E l \in LoggerIds, w \in Writers : CanConfig /\ SetOutput(l, w)
    \/ \E l \in LoggerIds : CanConfig /\ SetNoLock(l)
    \/ \E l \in LoggerIds, S \in RegSevs : TotalOut < MaxRegOut /\ SevGate("t1", l, S)
    \/ SevNewEntry("t1")
    \/ LogFormatLock("t1")
    \/ LogWriteUnlock("t1")
    \/ SevAfter("t1")
    \/ Return("t1")

SpecReg == InitReg /\ [][NextReg]_vars

(* The package level: Loggers made by New, Sub and StandardLogger, the     *)
(* package-level SetOutput, and Info calls through any of them.            *)

NextPkg ==
    \/ \E names \in NameInputs : New(names)
    \/ \E p \in LoggerIds, names \in NameInputs : Sub(p, names)
    \/ StandardLogger
    \/ \E w \in PkgWriters : SetOutputAll(w)
    \/ \E l \in LoggerIds : TotalOut < MaxRegOut /\ SevGate("t1", l, InfoLevel)
    \/ SevNewEntry("t1")
    \/ LogFormatLock("t1")
    \/ LogWriteUnlock("t1")
    \/ SevAfter("t1")
    \/ Return("t1")

SpecPkg == InitReg /\ [][NextPkg]_vars

-----------------------------------------------------------------------------
(* Properties. *)

(* Every record written so far. *)
Records == UNION {{out[w][i] : i \in DOMAIN out[w]} : w \in Writers}

(* The positions of a call of a severity method. *)
BeforeWrite == {"new", "log", "write"}
AfterWrite == {"after", "ret", "exit", "panicking"}

(* C1: a severity method of the Logger called at severity S while the       *)
(* threshold is T writes exactly one record, at level S, to the Logger's    *)
(* output if T >= S, and writes nothing and returns if T < S; T is the      *)
(* Logger's level at the moment of the call, whatever SetLevel calls came   *)
(* before.                                                                  *)
C1_GateAndOneRecord ==
    /\ [][\A t \in Threads :
            (th[t].pc = "idle" /\ th'[t].op = "sev") =>
                /\ th'[t].T = logger[th'[t].lg].Level
                /\ (th'[t].res = "gated") = (th'[t].T < th'[t].S)
                /\ (th'[t].pc = "new") = (th'[t].T >= th'[t].S)]_vars
    /\ [](\A t \in Threads :
            th[t].op = "sev" =>
                /\ th[t].res = "gated" => th[t].pc = "ret" /\ WrittenBy(t) = th[t].n0
                /\ th[t].pc \in BeforeWrite => WrittenBy(t) = th[t].n0
                /\ (th[t].pc \in AfterWrite /\ th[t].res # "gated") =>
                      /\ WrittenBy(t) = th[t].n0 + 1
                      /\ LET o == out[logger[th[t].lg].Out]
                         IN  /\ Len(o) > 0
                             /\ o[Len(o)].by = t
                             /\ o[Len(o)].level = th[t].S)

(* C1 witness: after SetLevel calls, a call at the threshold itself has     *)
(* written its record and a later call above the threshold was gated out.   *)
C1_Witness ==
    /\ logger[1].Level = WarnLevel
    /\ TotalOut = 2
    /\ out["stderr"][1].level = DebugLevel
    /\ out["stderr"][2].level = WarnLevel
    /\ th["t1"].pc = "ret" /\ th["t1"].res = "gated" /\ th["t1"].S = InfoLevel

(* C2: a gated-out severity call changes nothing: no record, no Entry taken  *)
(* from or put into a pool, no lock taken, the process neither ended nor     *)
(* unwinding; the call just returns. This includes Fatal under threshold     *)
(* Panic.                                                                    *)
C2_GatedOutNoOp ==
    [][\A t \in Threads :
          (th'[t] # th[t] /\ (th'[t].res = "gated" \/ th[t].res = "gated")) =>
              /\ UNCHANGED <<logger, loggers, std, entries, retained, out, status>>
              /\ th'[t].pc \in {"ret", "idle"}
              /\ status = "running"]_vars

(* C2 witness: Fatal was called under threshold Panic and was gated out; the *)
(* process runs on.                                                          *)
C2_Witness ==
    /\ th["t1"].pc = "ret" /\ th["t1"].res = "gated"
    /\ th["t1"].S = FatalLevel /\ th["t1"].T = PanicLevel
    /\ status = "running"

(* The Entries that sit in some Logger's pool. *)
Pooled == UNION {logger[l].entryPool : l \in LoggerIds}

(* The Entries newEntry has just handed to a method of the Logger. *)
HandedOut ==
    {th[t].ent : t \in {u \in Threads :
        \/ th[u].pc = "wret"
        \/ th[u].op = "sev" /\ th[u].pc = "log"}}

Clean(e) ==
    /\ DOMAIN entries[e].Data = {moduleKey}
    /\ entries[e].JsonRaw = NoJson
    /\ entries[e].Buffer = "nil"

(* C3: every Entry newEntry hands out, fresh or from the pool, and every    *)
(* Entry waiting in the pool carries the module key only, no raw JSON and   *)
(* no buffer; a record logged by a severity method of the Logger shows no   *)
(* field and no JSON of any With* call.                                     *)
C3_PoolEntriesClean ==
    /\ \A e \in HandedOut \cup Pooled : Clean(e)
    /\ \A r \in Records :
          entries[r.ent].pooled => r.fields = NoFields /\ r.json = NoJson

(* C3 witness: views with a field and with raw JSON are held by the caller  *)
(* and newEntry has just handed out an Entry taken from the pool.           *)
C3_Witness ==
    /\ th["t1"].op = "sev" /\ th["t1"].pc = "log" /\ th["t1"].fromPool
    /\ \E e \in retained["t1"] : DOMAIN entries[e].attached # {}
    /\ \E e \in retained["t1"] : entries[e].JsonRaw # NoJson

(* The views branched with a new key from a view the Logger returned. *)
Branches ==
    {e2 \in EntryIds :
        /\ entries[e2].from # 0
        /\ ~entries[entries[e2].from].pooled
        /\ DOMAIN entries[e2].added \cap DOMAIN entries[entries[e2].from].attached = {}}

C5_ExactFieldsEveryTime ==
    \A r \in Records :
        ~entries[r.ent].pooled => r.fields = entries[r.ent].attached

(* C5 witness: one Entry the caller holds was logged twice. *)
C5_Witness ==
    /\ Len(out["stderr"]) = 2
    /\ out["stderr"][1].ent = out["stderr"][2].ent
    /\ ~entries[out["stderr"][1].ent].pooled

(* The callers that hold Entry e: it was returned to them by With*, or a    *)
(* method they are in is using it.                                          *)
InUse == {"log", "write", "after", "wret", "panicking", "exit"}
Holders(e) ==
    {t \in Threads : e \in retained[t] \/ (th[t].ent = e /\ th[t].pc \in InUse)}

(* C6: under every interleaving of two callers no Entry has two holders,    *)
(* and no Entry that has a holder is in a pool.                             *)
C6_OneOwner ==
    \A e \in EntryIds :
        /\ Cardinality(Holders(e)) <= 1
        /\ e \in Pooled => Holders(e) = {}

(* C6 witness: one caller is writing with an Entry it took from the pool    *)
(* while the other is logging a view it got from With* and waits for the    *)
(* lock.                                                                    *)
C6_Witness ==
    /\ th["t1"].op = "sev" /\ th["t1"].pc = "write" /\ th["t1"].fromPool
    /\ th["t2"].op = "esev" /\ th["t2"].pc = "log"
    /\ th["t2"].ent \in retained["t2"]
    /\ th["t1"].ent # th["t2"].ent

(* An enabled call of the severity method for level S by caller t. *)
EnabledCall(t, S) ==
    /\ th[t].op = "sev" /\ th[t].S = S
    /\ th[t].pc # "idle" /\ th[t].res # "gated"

C8_PanicWritesThenUnwinds ==
    /\ [](\A t \in Threads :
            EnabledCall(t, PanicLevel) =>
                /\ th[t].pc \in BeforeWrite \cup {"after", "panicking"}
                /\ th[t].pc = "panicking" =>
                      /\ WrittenBy(t) = th[t].n0 + 1
                      /\ \E r \in Records : r.by = t /\ r.level = PanicLevel)
    /\ [](\A t \in Threads :
            th[t].pc = "panicking" => th[t].S = PanicLevel /\ th[t].res = "panic")
    /\ \A t \in Threads :
          (EnabledCall(t, PanicLevel) /\ th[t].pc = "new") ~> (th[t].pc = "panicking")

(* C8 witness: Panic was called under threshold Error, the record is        *)
(* written and the caller is unwinding.                                     *)
C8_Witness ==
    /\ EnabledCall("t1", PanicLevel) /\ th["t1"].T = ErrorLevel
    /\ th["t1"].pc = "panicking" /\ status = "running"
    /\ out["stderr"][Len(out["stderr"])].level = PanicLevel

(* The Loggers New has made. *)
Registered == {loggers[i] : i \in DOMAIN loggers}

(* C9: a Logger made by New whose level was never set has threshold Info:   *)
(* no Debug record is ever logged through it.                               *)
C9_NewThresholdInfo ==
    \A l \in Registered :
        logger[l].Level \notin RegLevels =>
            /\ logger[l].Level = InfoLevel
            /\ \A r \in Records : r.lg = l => r.level # DebugLevel

(* C9 witness: a Debug call on a Logger made by New, its level never set,   *)
(* has written its record.                                                  *)
C9_Witness ==
    \E r \in Records :
        /\ r.lg \in Registered
        /\ logger[r.lg].Level \notin RegLevels
        /\ r.level = DebugLevel

(* C10 as stated: whatever the argument list, Sub returns a Logger other    *)
(* than its receiver.                                                       *)
C10_SubAlwaysDistinct ==
    last.op = "Sub" => last.result # last.recv

(* C10, amended: for every non-empty argument list p.Sub(segments...)       *)
(* returns a new Logger, other than p and than every Logger made before,    *)
(* whose path is p's path followed by the segments, with its own pool and   *)
(* lock; a step that changes one Logger (SetLevel, SetOutput, SetNoLock,    *)
(* its lock, its pool) changes no other Logger.                             *)
C10_SubNonEmptyDistinct ==
    /\ [](last.op = "Sub" /\ Len(last.names) > 0 =>
            /\ last.result # last.recv
            /\ last.result \in LoggerIds
            /\ logger[last.result].moduleNames
                   = logger[last.recv].moduleNames \o last.names
            /\ Name(last.result) = Name(last.recv) \o "/" \o Join(last.names))
    /\ [][(last'.op = "Sub" /\ last' # last /\ Len(last'.names) > 0) =>
            /\ last'.result \notin LoggerIds
            /\ logger'[last'.result].entryPool = {}
            /\ logger'[last'.result].mu = MutexWrap
            /\ \A l \in LoggerIds : logger'[l] = logger[l]]_vars
    /\ [][\A l \in LoggerIds :
            logger'[l] # logger[l] =>
                \A m \in LoggerIds \ {l} : logger'[m] = logger[m]]_vars

(* C10 witness: SetLevel, SetOutput or SetNoLock was called on the Logger   *)
(* Sub returned for a segment and its parent is as New made it.             *)
C10_Witness ==
    /\ last.op = "Sub" /\ Len(last.names) > 0
    /\ last.result \in LoggerIds /\ last.recv \in LoggerIds
    /\ \/ logger[last.result].Level \in RegLevels
       \/ logger[last.result].Out = "w"
       \/ logger[last.result].mu.disabled
    /\ logger[last.recv] = NewLogger(<<>>)

(* C11: a Logger made by Sub starts with the output its parent has at that  *)
(* moment, so after p.SetOutput(w) the records logged through p.Sub("x")    *)
(* go to w.                                                                 *)
C11_SubSharesOutput ==
    [][(last'.op = "Sub" /\ last' # last /\ last'.result # last'.recv) =>
          logger'[last'.result].Out = logger[last'.recv].Out]_vars

(* C11 witness: the parent's output is w, and a record logged through the   *)
(* Logger Sub made from it is in stderr.                                    *)
C11_Witness ==
    /\ last.op = "Sub" /\ last.result # last.recv
    /\ logger[last.recv].Out = "w"
    /\ \E i \in DOMAIN out["stderr"] : out["stderr"][i].lg = last.result

(* C16: once the package-level SetOutput(w) has returned, every Logger made *)
(* so far, by New or by Sub, has output w, and so has the standard Logger   *)
(* when it is first made right after the call.                              *)
C16_SetOutputReachesAll ==
    /\ [](last.op = "SetOutput" =>
            \A l \in LoggerIds : logger[l].Out = last.names[1])
    /\ [][(last.op = "SetOutput" /\ last'.op = "StandardLogger") =>
            logger'[std'].Out = last.names[1]]_vars

(* C16 witness: the package-level SetOutput(w) was the last call made, a     *)
(* Logger made before it still has stderr as output and a call through it   *)
(* is about to write.                                                       *)
C16_Witness ==
    /\ last.op = "SetOutput" /\ last.names = <<"w">>
    /\ th["t1"].pc = "write"
    /\ logger[th["t1"].lg].Out = "stderr"
    /\ \E l \in Registered : logger[l].Out = "w"

(* The ids of the blocks, front to back. *)
Ids(seq) == [k \in DOMAIN seq |-> seq[k].id]

(* The trace records caller t has written during its current call. *)
CallRecords(t) ==
    LET Mine(r) == "kind" \in DOMAIN r /\ r.by = t /\ r.n0 = th[t].n0
        all == SelectSeq(out["stderr"], Mine) \o SelectSeq(out["w"], Mine)
    IN  IF th[t].op = "tend" THEN all ELSE <<>>

(* A TraceEnd call that is over, whichever way it ended. *)
TraceEndOver(t) == th[t].op = "tend" /\ th[t].pc \in {"ret", "panicking"}

(* C17: a TraceEnd(i) call that is over has written exactly one record per  *)
(* block of channel i, in the order the blocks were appended, and no record *)
(* of a block of another channel.                                           *)
C17_TraceEndWritesChain ==
    \A t \in Threads :
        TraceEndOver(t) =>
            /\ Ids(CallRecords(t)) = Ids(Blocks(th[t].idx))
            /\ \A k \in DOMAIN CallRecords(t) : CallRecords(t)[k].chan = th[t].idx

(* C17 witness: channel 0 holds two blocks and another channel one; the     *)
(* finished TraceEnd(0) has written the two blocks of channel 0, in order.  *)
C17_Witness ==
    /\ th["t1"].op = "tend" /\ th["t1"].pc = "ret" /\ th["t1"].idx = 0
    /\ Len(Blocks(0)) = 2 /\ Len(Blocks(1)) = 1
    /\ Blocks(1)[1].id < Blocks(0)[2].id
    /\ Ids(CallRecords("t1")) = Ids(Blocks(0))

(* Every trace record written so far, per writer in the order written. *)
TraceRecords ==
    LET IsTrace(r) == "kind" \in DOMAIN r
    IN  SelectSeq(out["stderr"], IsTrace) \o SelectSeq(out["w"], IsTrace)

(* The records of the TraceEnd call of t that started after n records. *)
RecordsOfCall(t, n) ==
    LET Mine(r) == r.by = t /\ r.n0 = n IN SelectSeq(TraceRecords, Mine)

(* The TraceEnd calls that wrote something and are over. *)
CallsOver ==
    {c \in {<<TraceRecords[k].by, TraceRecords[k].n0>> : k \in DOMAIN TraceRecords} :
        ~(th[c[1]].op = "tend" /\ th[c[1]].n0 = c[2] /\ th[c[1]].pc \in {"tend", "pwrite"})}

(* Two calls on the same channel with no Trace in between. *)
SameChainState(c, d) ==
    /\ RecordsOfCall(c[1], c[2])[1].chan = RecordsOfCall(d[1], d[2])[1].chan
    /\ RecordsOfCall(c[1], c[2])[1].epoch = RecordsOfCall(d[1], d[2])[1].epoch

(* C18: no step of a TraceEnd call changes the chain registry, the buffers  *)
(* or the colour map, and two TraceEnd(i) calls with no Trace in between    *)
(* write the same sequence of records.                                      *)
C18_TraceEndIdempotent ==
    /\ [][(\E t \in Threads : th[t].op = "tend" \/ th'[t].op = "tend") =>
             (chains' = chains /\ colors' = colors)]_vars
    /\ [](\A c, d \in CallsOver :
             SameChainState(c, d) =>
                 Ids(RecordsOfCall(c[1], c[2])) = Ids(RecordsOfCall(d[1], d[2])))

(* C18 witness: two finished TraceEnd calls on channel 0 with no Trace in   *)
(* between, the second just returned with the chain still registered.       *)
C18_Witness ==
    /\ th["t1"].op = "tend" /\ th["t1"].pc = "ret" /\ th["t1"].idx = 0
    /\ Len(Blocks(0)) >= 1
    /\ \E c, d \in CallsOver :
          /\ c[2] < d[2] /\ d[2] = th["t1"].n0
          /\ SameChainState(c, d)
          /\ RecordsOfCall(c[1], c[2])[1].chan = 0

(* The palette colours marked used. *)
UsedColors == {c \in Palette : colors[c]}

(* C19: each chain created so far has claimed exactly one colour of the     *)
(* palette, and while there are at most four chains their colours are       *)
(* palette colours, pairwise distinct.                                      *)
C19_OneColourPerChain ==
    Cardinality(DOMAIN chains) <= Cardinality(Palette) =>
        /\ Cardinality(UsedColors) = Cardinality(DOMAIN chains)
        /\ \A i \in DOMAIN chains : chains[i].color \in Palette
        /\ \A i, j \in DOMAIN chains : i # j => chains[i].color # chains[j].color

(* C19 witness: two chains exist, the first one created with a palette      *)
(* colour.                                                                  *)
C19_Witness ==
    /\ Cardinality(DOMAIN chains) = 2
    /\ \E i \in DOMAIN chains : chains[i].color \in Palette /\ chains[i].blocks[1].id = 1

(* C20: a chain created when every palette colour is marked used gets       *)
(* nocolor; it is registered with its first block buffered, and a TraceEnd  *)
(* on a nocolor chain that returns has written every block of the chain, in *)
(* order, each in nocolor.                                                  *)
C20_NoColourAfterPalette ==
    /\ [][\A i \in Channels :
             (i \notin DOMAIN chains /\ i \in DOMAIN chains' /\ Unused(colors) = {}) =>
                 /\ chains'[i].color = nocolor
                 /\ Len(chains'[i].blocks) = 1
                 /\ chains'[i].blocks[1].color = nocolor
                 /\ colors' = colors]_vars
    /\ [](\A t \in Threads :
             (th[t].op = "tend" /\ th[t].pc = "ret" /\ th[t].idx \in DOMAIN chains
                /\ chains[th[t].idx].color = nocolor) =>
                 /\ Ids(CallRecords(t)) = Ids(Blocks(th[t].idx))
                 /\ \A k \in DOMAIN CallRecords(t) : CallRecords(t)[k].color = nocolor)

(* C20 witness: with the palette used up, a nocolor chain holding two       *)
(* blocks has been flushed by a TraceEnd that returned.                     *)
C20_Witness ==
    /\ Unused(colors) = {}
    /\ th["t1"].op = "tend" /\ th["t1"].pc = "ret" /\ th["t1"].idx \in DOMAIN chains
    /\ chains[th["t1"].idx].color = nocolor
    /\ Len(Blocks(th["t1"].idx)) = 2
    /\ Len(CallRecords("t1")) = 2

(* The callers about to store into a field of a Logger's configuration. *)
Storing == {t \in Threads : th[t].pc \in {"setlevel", "setout"}}

(* C12: a caller about to store into Out or Level of a Logger holds that    *)
(* Logger's lock.                                                           *)
C12_ConfigUnderLock ==
    \A t \in Storing : logger[th[t].lg].mu.locked = t

(* C12 witness: SetOutput holds the lock of the standard Logger and is      *)
(* about to store Out while SetLevel is about to store Level of the same    *)
(* Logger.                                                                  *)
C12_Witness ==
    /\ th["t1"].pc = "setout" /\ logger[th["t1"].lg].mu.locked = "t1"
    /\ th["t2"].pc = "setlevel" /\ th["t2"].lg = th["t1"].lg

(* The callers about to write rendered bytes to the output of a Logger. *)
Writing == {t \in Threads : th[t].pc \in {"write", "pwrite"}}

(* C13: a caller about to write rendered bytes to the output of a Logger    *)
(* whose lock is not disabled holds that Logger's lock.                     *)
C13_WritesUnderLock ==
    \A t \in Writing :
        ~logger[th[t].lg].mu.disabled => logger[th[t].lg].mu.locked = t

(* C13 witness: a log call holds the lock of the standard Logger and is     *)
(* about to write while TraceEnd is about to write to the same Logger.      *)
C13_Witness ==
    /\ th["t1"].pc = "write" /\ th["t1"].lg = std /\ logger[std].mu.locked = "t1"
    /\ th["t2"].pc = "pwrite" /\ th["t2"].lg = std

(* The fields the segments call for: key-i for every non-empty segment at   *)
(* zero-based position i, nothing for the empty ones.                       *)
SegmentFields(key, lns) ==
    [k \in {LineKey(key, i - 1) : i \in NonEmpty(lns)} |->
        lns[CHOOSE i \in NonEmpty(lns) : LineKey(key, i - 1) = k]]

(* A WithMultiLines / WithLongString call, of the Logger or of the package, *)
(* returns in this step.                                                    *)
LinesReturns(t) == th[t].op \in {"lines", "plines"} /\ th'[t].pc = "idle"

(* C14: WithMultiLines and WithLongString, as methods of a Logger and as    *)
(* package-level functions, return one Entry of the Logger that carries     *)
(* key-i for every non-empty segment at zero-based position i and no field  *)
(* for an empty segment, whatever the number of segments, none non-empty    *)
(* included.                                                                *)
C14_OneFieldPerSegment ==
    [][\A t \in Threads :
          LinesReturns(t) =>
              \E v \in retained'[t] \ retained[t] :
                  /\ entries'[v].Logger = th[t].lg
                  /\ entries'[v].attached = SegmentFields(th[t].key, th[t].segs)]_vars

(* C14 witness: the Logger's method has returned an Entry carrying only k-1 *)
(* for a text whose first segment is empty.                                 *)
C14_Witness ==
    \E v \in retained["t1"] :
        /\ entries[v].Logger = 1
        /\ entries[v].from \in logger[1].entryPool
        /\ DOMAIN entries[v].attached = {"k-1"}
        /\ entries[v].attached["k-1"] = "x"

(* A WithStruct call returns in this step. *)
StructReturns(t) == th[t].op = "struct" /\ th[t].pc = "wret" /\ th'[t].pc = "idle"

(* C15: logger.WithStruct(v) returns an Entry of the receiving Logger; when *)
(* v does not marshal the Entry carries the error as a field and no JSON    *)
(* payload, when v marshals it carries the JSON payload and no error field. *)
C15_WithStructNeverFails ==
    [][\A t \in Threads :
          StructReturns(t) =>
              \E v \in retained'[t] \ retained[t] :
                  /\ entries'[v].Logger = th[t].recv
                  /\ IF MarshalFails(th[t].val)
                     THEN /\ ErrorKey \in DOMAIN entries'[v].Data
                          /\ entries'[v].JsonRaw = NoJson
                     ELSE /\ entries'[v].JsonRaw = Marshal(th[t].val)
                          /\ ErrorKey \notin DOMAIN entries'[v].Data]_vars

(* C15 witness: with the standard Logger in place, WithStruct on the Logger *)
(* made by New has returned an Entry of that Logger carrying the error and  *)
(* no payload.                                                              *)
C15_Witness ==
    /\ std # 0
    /\ \E v \in retained["t1"] :
          /\ entries[v].Logger = 1 /\ std # 1
          /\ ErrorKey \in DOMAIN entries[v].Data
          /\ entries[v].JsonRaw = NoJson

(* head + "..." + tail of the value s: a prefix and a suffix of s around    *)
(* the ellipsis.                                                            *)
IsHeadDotsTail(r, s) ==
    \E h, k \in 0 .. Len(s) :
        r = SubSeq(s, 1, h) \o Ellipsis \o SubSeq(s, Len(s) - k + 1, Len(s))

(* The formatter has rendered the value of a field for caller t. *)
ValueRendered(t) == th[t].op = "format" /\ th[t].pc = "ret"

(* C21: a field value longer than 128 characters is rendered as head +      *)
(* "..." + tail, 128 characters in all, never as the full value; a value of *)
(* at most 128 characters is rendered unchanged.                            *)
C21_TruncatedToWidth ==
    \A t \in Threads :
        ValueRendered(t) =>
            IF Len(th[t].src) > MaxWidth
            THEN /\ Len(th[t].rendered) = MaxWidth
                 /\ th[t].rendered # th[t].src
                 /\ IsHeadDotsTail(th[t].rendered, th[t].src)
            ELSE th[t].rendered = th[t].src

(* C21 witness: a value of more than 128 characters has been rendered, and  *)
(* not as the full value.                                                   *)
C21_Witness ==
    /\ ValueRendered("t1")
    /\ Len(th["t1"].src) > MaxWidth
    /\ th["t1"].rendered # th["t1"].src

(* The reserved keys the caller attached to the Entry of record r. *)
ReservedAttached(r) == ReservedKeys \cap DOMAIN entries[r.ent].attached

(* The key a reserved user key is moved to. *)
Prefixed(k) == "fields." \o k

(* C22: a record logged through an Entry to which the caller attached a     *)
(* field under a reserved key keeps its own level, shows no field line      *)
(* under the reserved key, and shows the caller's value under the prefixed  *)
(* key.                                                                     *)
C22_ReservedKeyPrefixed ==
    \A r \in Records :
        \A k \in ReservedAttached(r) :
            /\ r.level \in Levels
            /\ k \notin DOMAIN r.fields
            /\ Prefixed(k) \in DOMAIN r.fields
            /\ r.fields[Prefixed(k)] = entries[r.ent].attached[k]

(* C22 witness: a record has been written through an Entry carrying the     *)
(* caller's field msg.                                                      *)
C22_Witness ==
    \E r \in Records :
        /\ "msg" \in ReservedAttached(r)
        /\ entries[r.ent].attached["msg"] = "v1"
        /\ r.level = InfoLevel

(* The unwind of an enabled Panic* call, after its record was written. *)
OwnPanic(t) == th[t].op \in {"sev", "esev"} /\ th[t].lvl = PanicLevel

(* The exit of an enabled Fatal* call. *)
OwnExit(t) == th[t].op \in {"sev", "esev"} /\ th[t].lvl = FatalLevel /\ th[t].pc = "exit"

(* C23: no call unwinds or ends the process unless it is an enabled Panic*  *)
(* or Fatal* call.                                                          *)
C23_OnlyPanicUnwinds ==
    /\ \A t \in Threads : th[t].pc = "panicking" => OwnPanic(t)
    /\ status = "crashed" => \E t \in Threads : th[t].pc = "panicking" /\ OwnPanic(t)
    /\ status = "exited" => \E t \in Threads : OwnExit(t)

(* C23 witness: an enabled Panic call has written its record and unwinds,   *)
(* with a block buffered on channel 0.                                      *)
C23_Witness ==
    /\ th["t1"].pc = "panicking" /\ OwnPanic("t1")
    /\ WrittenBy("t1") > th["t1"].n0
    /\ Len(Blocks(0)) >= 1

(* C24: a Print call is never gated out, whatever the threshold, and its    *)
(* record is rendered and written at level Info.                            *)
C24_PrintAtInfo ==
    \A t \in Threads :
        th[t].op = "print" =>
            /\ th[t].res # "gated"
            /\ th[t].lvl = InfoLevel
            /\ th[t].pc = "write" => th[t].rec.level = InfoLevel
            /\ th[t].pc \in {"after", "ret"} => WrittenBy(t) = th[t].n0 + 1

(* C24 witness: with the threshold at Error, Print has written its record.  *)
C24_Witness ==
    /\ th["t1"].op = "print" /\ th["t1"].pc = "after"
    /\ th["t1"].T = ErrorLevel
    /\ WrittenBy("t1") = th["t1"].n0 + 1

(* A severity call of the Logger that acquired an Entry and is over, by     *)
(* return or by unwinding.                                                  *)
SevOver(t) ==
    th[t].op = "sev" /\ th[t].pc \in {"ret", "panicking"} /\ th[t].res # "gated"

(* No call is in flight. *)
AllIdle == \A t \in Threads : th[t].pc = "idle"

(* C25: when a severity call of the Logger is over, on whichever path, the  *)
(* Entry it acquired is back in the pool; and with no call in flight every  *)
(* Entry ever acquired has been released.                                   *)
C25_ReleasedOnEveryPath ==
    /\ \A t \in Threads : SevOver(t) => th[t].ent \in logger[th[t].lg].entryPool
    /\ AllIdle => \A e \in EntryIds : entries[e].pooled => e \in Pooled

(* C25 witness: an Info call has returned and its Entry, acquired from the  *)
(* pool, is back in the pool.                                               *)
C25_Witness ==
    /\ SevOver("t1") /\ th["t1"].pc = "ret" /\ th["t1"].lvl = InfoLevel
    /\ th["t1"].fromPool
    /\ th["t1"].ent \in logger[th["t1"].lg].entryPool

(* Both callers are at the end of a Trace call on one channel that each of  *)
(* them found absent.                                                       *)
BothFoundAbsent ==
    /\ \A t \in Threads : th[t].op = "trace" /\ th[t].pc = "ret" /\ ~th[t].ok
    /\ th["t1"].idx = th["t2"].idx

(* C26: when two callers have each run Trace on the same channel and each   *)
(* found it absent, both created a chain, the registry holds the chain      *)
(* stored last with at most that caller's block, and the other chain, with  *)
(* the block appended to it, is not registered; a TraceEnd of the channel   *)
(* that returns has written the registered blocks only.                     *)
C26_RacingTraceLosesBlock ==
    /\ BothFoundAbsent =>
          LET i == th["t1"].idx
          IN  /\ \E t \in Threads : DOMAIN orphans = {t} /\ chains[i].by # t
              /\ Len(Blocks(i)) = 1
              /\ NOrphanBlocks = 1
              /\ \A t \in DOMAIN orphans :
                    orphans[t].blocks[1].id \notin {Blocks(i)[k].id : k \in DOMAIN Blocks(i)}
    /\ \A t \in Threads :
          (th[t].op = "tend" /\ th[t].pc = "ret") =>
              Ids(CallRecords(t)) = Ids(Blocks(th[t].idx))

(* C26 witness: both callers found channel 0 absent and appended a block;   *)
(* a later TraceEnd(0) has returned having written one record, and the      *)
(* block of the replaced chain is not among the records.                    *)
C26_Witness ==
    /\ th["t1"].op = "tend" /\ th["t1"].pc = "ret" /\ th["t1"].idx = 0
    /\ Len(CallRecords("t1")) = 1
    /\ NOrphanBlocks = 1 /\ Len(Blocks(0)) = 1
    /\ \A t \in DOMAIN orphans : \A r \in Records : r.id # orphans[t].blocks[1].id

(* How often Logger l stands in the registry, i.e. how many times the       *)
(* package-level SetOutput calls its SetOutput.                             *)
TimesRegistered(l) == Cardinality({i \in DOMAIN loggers : loggers[i] = l})

(* C27: the registry holds the standard Logger, once it is made, and the    *)
(* Logger the last New or StandardLogger call returned, and it holds no     *)
(* Logger more than once.                                                   *)
C27_RegisteredExactlyOnce ==
    /\ std # 0 => TimesRegistered(std) = 1
    /\ last.op \in {"New", "StandardLogger"} => TimesRegistered(last.result) = 1
    /\ \A l \in Registered : TimesRegistered(l) = 1

(* C27 witness: a Logger made by New and the standard Logger both exist and *)
(* both stand in the registry.                                              *)
C27_Witness ==
    /\ std # 0 /\ std \in Registered
    /\ \E l \in Registered : l # std /\ TimesRegistered(l) = 1

(* C28: a Sub call gives the derived Logger the receiver's path followed by *)
(* the given segments, and no call changes the path of a Logger that        *)
(* already exists.                                                          *)
C28_SubKeepsPaths ==
    [][/\ \A l \in LoggerIds : logger'[l].moduleNames = logger[l].moduleNames
       /\ (last'.op = "Sub" /\ Len(logger') > Len(logger)) =>
              logger'[last'.result].moduleNames =
                  logger[last'.recv].moduleNames \o last'.names]_vars

(* C28 witness: two Loggers derived from the same parent with different     *)
(* segments, the second by the last call, each showing the parent's path    *)
(* followed by its own segment.                                             *)
C28_Witness ==
    /\ last.op = "Sub" /\ last.result = Len(logger) /\ last.names = <<"y">>
    /\ \E c \in LoggerIds :
          /\ c # last.result /\ c # last.recv
          /\ logger[c].moduleNames = logger[last.recv].moduleNames \o <<"x">>
          /\ logger[last.result].moduleNames = logger[last.recv].moduleNames \o <<"y">>

(* C29: the package-level functions make one standard Logger only, every    *)
(* caller holds that Logger once StandardLogger has returned to it, and the *)
(* standard Logger has the Level of the latest SetLevel.                    *)
C29_OneStandardLogger ==
    /\ Len(logger) <= 1
    /\ \A t \in Threads :
          (th[t].op \in PkgOps /\ th[t].pc \in {"got", "ret"}) => th[t].lg = std
    /\ (last.op = "SetLevel" /\ std # 0) => logger[std].Level = last.result

(* C29 witness: two overlapping calls on the one standard Logger, a         *)
(* SetLevel and a GetLevel that has read the Level set.                     *)
C29_Witness ==
    /\ Len(logger) = 1 /\ std = 1
    /\ th["t1"].op = "SetLevel" /\ th["t1"].pc = "ret" /\ th["t1"].lvl = ErrorLevel
    /\ th["t2"].op = "GetLevel" /\ th["t2"].pc = "ret" /\ th["t2"].T = ErrorLevel
    /\ th["t1"].lg = std /\ th["t2"].lg = std

(* The block the last helper call appended. *)
LastBlock == Blocks(last.recv)[Len(Blocks(last.recv))]

(* C30: the block TraceArgs or TraceArgsDefault appends has the arguments   *)
(* given as its args, and the block of TraceWithStruct, TraceFileds or a    *)
(* Default variant of them has no args and renders an empty message.        *)
C30_HelpersForwardArgs ==
    /\ last.op \in ArgsHelpers =>
          LastBlock.id = last.result /\ LastBlock.args = last.names
    /\ last.op \in NoArgsHelpers =>
          /\ LastBlock.id = last.result
          /\ LastBlock.args = <<>>
          /\ Sprint(LastBlock.args) = ""

(* C30 witness: TraceArgs was given two arguments and has appended its      *)
(* block to a channel that holds a block of TraceWithStruct already.        *)
C30_Witness ==
    /\ last.op = "TraceArgs" /\ Len(last.names) = 2
    /\ LastBlock.id = last.result
    /\ \E k \in DOMAIN Blocks(last.recv) :
          Blocks(last.recv)[k].Obj = "ok" /\ k < Len(Blocks(last.recv))

====
